---- MODULE Spec2Model ----
(***************************************************************************)
(* Model of multi_model_code_review: the response parser (reviewer.py),    *)
(* the per-model review loop with observations (reviewer.py,               *)
(* observations.py) and the aggregator (aggregator.py).                    *)
(*                                                                         *)
(* A model response is a sequence of lines.  A line is a record            *)
(* [k |-> kind, t |-> text]:                                               *)
(*   "H"    "### <t>"              a change heading                        *)
(*   "V"    "VERDICT:<t>"                                                  *)
(*   "C"    "CORRECTNESS:<t>"      "S"  "SPEC_COMPLIANCE:<t>"              *)
(*   "TC"   "TEST_COVERAGE:<t>"    "I"  "INTEGRATION:<t>"                  *)
(*   "R"    "REASONING:<t>"                                                *)
(*   "CF"   "CONFIDENCE:<t>"       "L"  "LIMITATIONS:<t>"                  *)
(*   "RULE" "---"                  "H2" "## <t>"                           *)
(*   "T"    any other text line                                            *)
(*   "B"    a blank (empty or whitespace-only) line                        *)
(*   "OBS"  "### OBSERVATIONS" followed by a fenced json block holding <t> *)
(* The regular expressions of reviewer.py are modelled by what they match  *)
(* on such line sequences.                                                 *)
(***************************************************************************)
EXTENDS Integers, Sequences, FiniteSets, TLC

VARIABLES
    models,            \* review_with_models: the requested model names, in order
    repo_path,         \* review_with_models: repository path, or None
    max_observations,  \* review_with_models: observation iteration budget
    prompt,            \* review_with_models: the original prompt
    task,              \* one review_with_model task per position of models
    results,           \* what asyncio.gather returned, once it has
    aggregate,         \* the AggregateReview built from results, once built
    response,          \* parser harness: the blocks of the raw response
    parsed,            \* parser harness: parse_review_response's result
    parsed_obs,     \* parser harness: what parse_observations did
    verdict_text,      \* parser harness: the text handed to parse_verdict
    verdict_out,       \* parser harness: parse_verdict's result
    reviews,           \* aggregator harness: the list of reviews handed to it
    agg_args,          \* aggregator harness: the diff_ref and spec_file handed to it
    agg_out,           \* aggregator harness: aggregate_reviews' result
    obs_requests,      \* runner harness: the requests handed to run_observations
    tool_outcomes,     \* runner harness: what the tool call of each request does
    obs_results,       \* runner harness: what run_observations did
    tool_call,         \* runner harness: one run_observation and what the tool received
    analysis,          \* raises_analysis: the function analysed and what was reported
    cli                \* gate command: its options, position and exit code

inputVars == <<models, repo_path, max_observations, prompt>>
loopVars == <<inputVars, task, results, aggregate>>
parseVars == <<response, parsed, parsed_obs, verdict_text, verdict_out>>
aggVars == <<reviews, agg_args, agg_out>>
obsVars == <<obs_requests, tool_outcomes, obs_results, tool_call, analysis>>

cliVars == <<cli>>

vars == <<loopVars, parseVars, aggVars, obsVars, cliVars>>

None == "None"

\* a value that is not there yet, and one that is
Nothing == << >>
Some(x) == <<x>>

\* ------------------------------------------------------------------ bounds

\* longest response, in blocks, handed to the parser harness
MaxBlocks == 2
\* longest review list handed to the aggregator harness
MaxReviews == 2
\* largest observation budget (max_observations) a review is started with
MaxBudget == 3
\* the most requests of one run_observations call
MaxRequests == 2

\* ------------------------------------------------------------ verdict model

Verdict == {"PASS", "CONCERN", "BLOCK"}

\* "pas" spelt with the long s (U+017F), whose upper case is S, before "s"
LongS == "pa(long s)s"

\* text.strip().upper() on the field texts the model draws from
StripUpper(text) ==
    CASE text = "pass" -> "PASS"
      [] text = " Block " -> "BLOCK"
      [] text = "Concern" -> "CONCERN"
      [] text = LongS -> "PASS"
      [] text = " maybe " -> "MAYBE"
      [] text = "n/a" -> "N/A"
      [] text = "valid" -> "VALID"
      [] text = "low" -> "LOW"
      [] OTHER -> text

\* \w+ : the text is one run of word characters (surrounding blanks aside)
IsWord(text) == text \notin {"", "N/A", "n/a", "NOT SURE"}

\* parse_verdict with PASS as its default
parse_verdict_DefaultPass(text) ==
    LET u == StripUpper(text) IN
    IF u = "PASS" THEN "PASS"
    ELSE IF u = "CONCERN" THEN "CONCERN"
    ELSE IF u = "BLOCK" THEN "BLOCK"
    ELSE "PASS"

parse_verdict(text) ==
    LET u == StripUpper(text) IN
    IF u = "PASS" THEN "PASS"
    ELSE IF u = "CONCERN" THEN "CONCERN"
    ELSE IF u = "BLOCK" THEN "BLOCK"
    ELSE "CONCERN"

parse_correctness(text) ==
    LET u == StripUpper(text) IN
    IF u \in {"VALID", "QUESTIONABLE", "BROKEN"} THEN u ELSE None

parse_spec_compliance(text) ==
    LET u == StripUpper(text) IN
    IF u \in {"MEETS", "PARTIAL", "VIOLATES"} THEN u
    ELSE IF u \in {"N/A", "NA"} THEN "N/A"
    ELSE None

parse_test_coverage(text) ==
    LET u == StripUpper(text) IN
    IF u \in {"COVERED", "PARTIAL", "UNTESTED"} THEN u ELSE None

parse_integration(text) ==
    LET u == StripUpper(text) IN
    IF u \in {"WIRED", "PARTIAL", "MISSING"} THEN u ELSE None

\* a mapping with no key (an empty dict)
EmptyMap == [n \in {} |-> None]

ChangeVerdict(id, v, c, s, tc, i, r) ==
    [change_id |-> id, verdict |-> v, correctness |-> c, spec_compliance |-> s,
     test_coverage |-> tc, integration |-> i, reasoning |-> r]

SelfReview(confidence, limitations) ==
    [confidence |-> confidence, limitations |-> limitations]

\* feature_requests, which nothing reads, is left out
ModelReview(m, g, ch, raw) ==
    [model |-> m, gate |-> g, changes |-> ch, raw_response |-> raw,
     self_review |-> Nothing, observations |-> EmptyMap]

\* ------------------------------------------------------------------- lines

Line(k, t) == [k |-> k, t |-> t]

\* a line that begins with "###"
IsHash3(l) == l.k \in {"H", "OBS"}

\* a line that ends a REASONING text: "\n---", "\n###", "\n##"
IsTerminator(l) == l.k \in {"RULE", "H", "OBS", "H2"}

\* "VERDICT:\s*(PASS|CONCERN|BLOCK)\s*\n" under re.IGNORECASE
IsVerdictLine(l) == l.k = "V" /\ StripUpper(l.t) \in Verdict

\* "\s*\n" also runs over the blank lines that follow: the first line from
\* p on that is not blank (Len(resp) + 1 when there is none)
RECURSIVE SkipBlank(_, _)
SkipBlank(resp, p) ==
    IF p <= Len(resp) /\ resp[p].k = "B" THEN SkipBlank(resp, p + 1) ELSE p

\* one optional labelled field "(?:LABEL:\s*(...)\s*\n)?" at position p :
\* the position after it when it matches there, p itself when it does not
SkipField(resp, p, kind, wordOnly) ==
    IF /\ p <= Len(resp)
       /\ resp[p].k = kind
       /\ resp[p].t # ""
       /\ (wordOnly => IsWord(resp[p].t))
    THEN SkipBlank(resp, p + 1) ELSE p

\* The tail of CHANGE_PATTERN after the heading: the VERDICT line at v, the
\* optional fields in their fixed order, then the REASONING line.  The
\* position of the REASONING line, or 0 when the tail does not match at v.
ReasoningAt(resp, v) ==
    IF v > Len(resp) \/ ~IsVerdictLine(resp[v]) THEN 0
    ELSE LET p1 == SkipField(resp, SkipBlank(resp, v + 1), "C", TRUE)
             p2 == SkipField(resp, p1, "S", FALSE)
             p3 == SkipField(resp, p2, "TC", TRUE)
             p4 == SkipField(resp, p3, "I", TRUE)
         IN IF p4 <= Len(resp) /\ resp[p4].k = "R" THEN p4 ELSE 0

\* group(1) is "(.+?)" under re.DOTALL: it starts as the heading's own text
\* and grows line by line until the tail matches after it.  The last line of
\* group(1), trying the ends from line j on; 0 when nothing matches.
RECURSIVE HeadingEnd(_, _)
HeadingEnd(resp, j) ==
    IF j >= Len(resp) THEN 0
    ELSE IF ReasoningAt(resp, SkipBlank(resp, j + 1)) # 0 THEN j
    ELSE HeadingEnd(resp, j + 1)

\* "REASONING:\s*(.*?)(?=\n---|\n###|\n##|$)": the last line of the text
\* that starts on line q
RECURSIVE ReasoningEnd(_, _)
ReasoningEnd(resp, q) ==
    IF q = Len(resp) \/ IsTerminator(resp[q + 1]) THEN q
    ELSE ReasoningEnd(resp, q + 1)

FieldText(resp, from, to, kind) ==
    IF \E p \in from..to : resp[p].k = kind
    THEN resp[CHOOSE p \in from..to : resp[p].k = kind].t
    ELSE ""

\* text.strip() on the lines from..to of a field text: the blank lines at
\* its end are dropped
RECURSIVE Strip(_, _, _)
Strip(resp, from, to) ==
    IF to > from /\ resp[to].k = "B" THEN Strip(resp, from, to - 1)
    ELSE SubSeq(resp, from, to)

\* one match of CHANGE_PATTERN: heading at i, group(1) ends on line j
ChangeOfMatch(resp, i, j) ==
    LET v == SkipBlank(resp, j + 1)
        q == ReasoningAt(resp, v)
        e == ReasoningEnd(resp, q)
        c == FieldText(resp, v + 1, q - 1, "C")
        s == FieldText(resp, v + 1, q - 1, "S")
        tc == FieldText(resp, v + 1, q - 1, "TC")
        it == FieldText(resp, v + 1, q - 1, "I")
    IN ChangeVerdict(
           Strip(resp, i, j),
           parse_verdict(resp[v].t),
           IF c # "" THEN parse_correctness(c) ELSE None,
           IF s # "" THEN parse_spec_compliance(s) ELSE None,
           IF tc # "" THEN parse_test_coverage(tc) ELSE None,
           IF it # "" THEN parse_integration(it) ELSE None,
           Strip(resp, q, e))

\* CHANGE_PATTERN.finditer(response): the matches from position pos on, left
\* to right, each search resuming where the previous match ended
RECURSIVE FindChanges(_, _)
FindChanges(resp, pos) ==
    IF pos > Len(resp) THEN << >>
    ELSE IF ~IsHash3(resp[pos]) THEN FindChanges(resp, pos + 1)
    ELSE LET j == HeadingEnd(resp, pos) IN
         IF j = 0 THEN FindChanges(resp, pos + 1)
         ELSE <<ChangeOfMatch(resp, pos, j)>>
              \o FindChanges(resp,
                     ReasoningEnd(resp, ReasoningAt(resp, SkipBlank(resp, j + 1))) + 1)

\* the gate loop of parse_review_response: BLOCK breaks out, CONCERN is kept
RECURSIVE GateLoop(_, _, _)
GateLoop(changes, k, gate) ==
    IF k > Len(changes) THEN gate
    ELSE IF changes[k].verdict = "BLOCK" THEN "BLOCK"
    ELSE IF changes[k].verdict = "CONCERN" THEN GateLoop(changes, k + 1, "CONCERN")
    ELSE GateLoop(changes, k + 1, gate)

\* the gate loop without its break: a later CONCERN overwrites BLOCK
RECURSIVE GateLoop_NoBreak(_, _, _)
GateLoop_NoBreak(changes, k, gate) ==
    IF k > Len(changes) THEN gate
    ELSE IF changes[k].verdict = "BLOCK" THEN GateLoop_NoBreak(changes, k + 1, "BLOCK")
    ELSE IF changes[k].verdict = "CONCERN" THEN GateLoop_NoBreak(changes, k + 1, "CONCERN")
    ELSE GateLoop_NoBreak(changes, k + 1, gate)

ChangesGate_NoBreak(changes) ==
    IF changes = << >> THEN "CONCERN" ELSE GateLoop_NoBreak(changes, 1, "PASS")

\* the gate without the "no changes parsed" default
ChangesGate_NoDefault(changes) == GateLoop(changes, 1, "PASS")

ChangesGate(changes) ==
    IF changes = << >> THEN "CONCERN" ELSE GateLoop(changes, 1, "PASS")

parse_confidence(text) ==
    LET u == StripUpper(text) IN
    IF u = "HIGH" THEN "HIGH"
    ELSE IF u = "LOW" THEN "LOW"
    ELSE "MEDIUM"

\* "###\s*SELF_REVIEW\s*\n" "CONFIDENCE:\s*(HIGH|MEDIUM|LOW)\s*\n"
\* "LIMITATIONS:" matches from line i on: the position of the LIMITATIONS
\* line, 0 when it does not match there
LimitationsAt(resp, i) ==
    IF resp[i].k # "H" \/ resp[i].t # "SELF_REVIEW" THEN 0
    ELSE LET c == SkipBlank(resp, i + 1) IN
         IF c > Len(resp) \/ resp[c].k # "CF"
                          \/ StripUpper(resp[c].t) \notin {"HIGH", "MEDIUM", "LOW"}
         THEN 0
         ELSE LET l == SkipBlank(resp, c + 1) IN
              IF l <= Len(resp) /\ resp[l].k = "L" THEN l ELSE 0

\* SELF_REVIEW_PATTERN.search(response): the first match
parse_self_review(resp) ==
    LET at == {i \in 1..Len(resp) : LimitationsAt(resp, i) # 0} IN
    IF at = {} THEN Nothing
    ELSE LET i == CHOOSE j \in at : \A h \in at : j <= h
             c == SkipBlank(resp, i + 1)
             l == LimitationsAt(resp, i)
         IN Some(SelfReview(parse_confidence(resp[c].t),
                            Strip(resp, l, ReasoningEnd(resp, l))))

parse_review_response(model, resp) ==
    LET changes == FindChanges(resp, 1)
    IN [ModelReview(model, ChangesGate(changes), changes, resp)
           EXCEPT !.self_review = parse_self_review(resp)]

\* ------------------------------------------------------ observation requests

\* a call that returns value, and a call that raises an exception whose
\* str() is error
Returns(value) == [raises |-> FALSE, error |-> None, value |-> value]

Raises(error) == [raises |-> TRUE, error |-> error, value |-> << >>]

\* the tools of OBSERVATION_TOOLS the model draws requests from
OBSERVATION_TOOLS == {"find_usages", "call_graph"}

\* a JSON array where a string is expected: a python list, which is truthy
\* and not hashable
Unhashable == "[list]"

\* a request object of the parsed array: what it holds under "name", "tool"
\* and "params" (None: the key is absent)
Request(name, tool, params) ==
    [dict |-> TRUE, name |-> name, tool |-> tool, params |-> params]

\* an element of the parsed JSON array that is not an object (a number)
NonDict == [dict |-> FALSE, name |-> None, tool |-> None, params |-> None]

\* json.loads on the fenced texts the model draws from: a list of request
\* dicts, a list holding a non-dict, a non-list value, a JSONDecodeError, or
\* (an array holding an integer of more than 4300 digits) a ValueError that
\* is not a JSONDecodeError
JsonLoads(text) ==
    CASE text = "[o1]" ->
             [kind |-> "list",
              items |-> <<Request("o1", "find_usages", "dict")>>]
      [] text = "[o1,o2]" ->
             [kind |-> "list",
              items |-> <<Request("o1", "find_usages", "dict"),
                          Request("o2", "call_graph", None)>>]
      [] text = "[]" -> [kind |-> "list", items |-> << >>]
      [] text = "[1]" -> [kind |-> "list", items |-> <<NonDict>>]
      [] text = "{}" -> [kind |-> "other", items |-> << >>]
      [] text = "[99..99]" -> [kind |-> "ValueError", items |-> << >>]
      [] OTHER -> [kind |-> "JSONDecodeError", items |-> << >>]

\* OBSERVATIONS_PATTERN.search(response): the first OBSERVATIONS block; only
\* json.JSONDecodeError is caught
parse_observations(resp) ==
    IF \A p \in 1..Len(resp) : resp[p].k # "OBS" THEN Returns(<< >>)
    ELSE LET p == CHOOSE q \in 1..Len(resp) :
                      resp[q].k = "OBS" /\ \A r \in 1..(q - 1) : resp[r].k # "OBS"
             js == JsonLoads(resp[p].t)
         IN CASE js.kind = "list" -> Returns(js.items)
              [] js.kind = "ValueError" ->
                     Raises("Exceeds the limit for integer string conversion")
              [] OTHER -> Returns(<< >>)

\* the new results replacing the accumulated ones instead of merging
Update_Replace(acc, new) == new

\* dict.update
Update(acc, new) ==
    [n \in (DOMAIN acc) \cup (DOMAIN new) |->
        IF n \in DOMAIN new THEN new[n] ELSE acc[n]]

\* --------------------------------------------------------------- aggregator

RECURSIVE Flatten(_, _)
\* every (model, change) pair of the reviews, in the order the two nested
\* loops of find_disagreements visit them
Flatten(revs, k) ==
    IF k > Len(revs) THEN << >>
    ELSE [c \in 1..Len(revs[k].changes) |->
              [model |-> revs[k].model, change |-> revs[k].changes[c]]]
         \o Flatten(revs, k + 1)

\* change_verdicts[change_id]: model -> the verdict last stored for it
\* every model of the reviews in the mapping, one that did not report the
\* change_id with the verdict of the first report
VerdictsOf_EveryModel(flat, id) ==
    LET at == {p \in 1..Len(flat) : flat[p].change.change_id = id}
        first == CHOOSE p \in at : \A q \in at : p <= q
        last(m) == CHOOSE p \in at :
                       /\ flat[p].model = m
                       /\ \A q \in at : flat[q].model = m => q <= p
    IN [m \in {flat[p].model : p \in 1..Len(flat)} |->
           IF \E p \in at : flat[p].model = m
           THEN flat[last(m)].change.verdict
           ELSE flat[first].change.verdict]

VerdictsOf(flat, id) ==
    LET at == {p \in 1..Len(flat) : flat[p].change.change_id = id}
        ms == {flat[p].model : p \in at}
        last(m) == CHOOSE p \in at :
                       /\ flat[p].model = m
                       /\ \A q \in at : flat[q].model = m => q <= p
    IN [m \in ms |-> flat[last(m)].change.verdict]

\* every split that holds a BLOCK ranked HIGH
Severity_BlockIsHigh(unique) ==
    IF "BLOCK" \in unique THEN "HIGH" ELSE "LOW"

Severity(unique) ==
    IF "PASS" \in unique /\ "BLOCK" \in unique THEN "HIGH"
    ELSE IF "BLOCK" \in unique THEN "MEDIUM"
    ELSE "LOW"

\* the second loop without its test of len(unique_verdicts)
RECURSIVE Disagreements_EveryChange(_, _)
Disagreements_EveryChange(flat, p) ==
    IF p > Len(flat) THEN << >>
    ELSE LET id == flat[p].change.change_id
             first == \A q \in 1..(p - 1) : flat[q].change.change_id # id
             verdicts == VerdictsOf(flat, id)
             unique == {verdicts[m] : m \in DOMAIN verdicts}
         IN (IF first
             THEN <<[change_id |-> id, verdicts |-> verdicts,
                     severity |-> Severity(unique)]>>
             ELSE << >>)
            \o Disagreements_EveryChange(flat, p + 1)

\* the records appended by the second loop, in dict insertion order: the
\* order in which the change_ids were first stored
RECURSIVE Disagreements(_, _)
Disagreements(flat, p) ==
    IF p > Len(flat) THEN << >>
    ELSE LET id == flat[p].change.change_id
             first == \A q \in 1..(p - 1) : flat[q].change.change_id # id
             verdicts == VerdictsOf(flat, id)
             unique == {verdicts[m] : m \in DOMAIN verdicts}
         IN (IF first /\ Cardinality(unique) > 1
             THEN <<[change_id |-> id, verdicts |-> verdicts,
                     severity |-> Severity(unique)]>>
             ELSE << >>)
            \o Disagreements(flat, p + 1)

\* the records left in the order the second loop appended them
SortBySeverity_Unsorted(ds) == ds

\* list.sort(key=severity_order[...]) is stable
SortBySeverity(ds) ==
    LET is(sev) == LET test(d) == d.severity = sev IN SelectSeq(ds, test)
    IN is("HIGH") \o is("MEDIUM") \o is("LOW")

\* a lone review's changes listed instead of the early return
find_disagreements_LoneReview(revs) ==
    IF Len(revs) < 2
    THEN SortBySeverity(Disagreements_EveryChange(Flatten(revs, 1), 1))
    ELSE SortBySeverity(Disagreements(Flatten(revs, 1), 1))

find_disagreements(revs) ==
    IF Len(revs) < 2 THEN << >>
    ELSE SortBySeverity(Disagreements(Flatten(revs, 1), 1))

\* BLOCK only when every review blocks
compute_gate_Unanimous(revs) ==
    LET gates == {revs[k].gate : k \in 1..Len(revs)} IN
    IF revs = << >> THEN "CONCERN"
    ELSE IF gates = {"BLOCK"} THEN "BLOCK"
    ELSE IF gates = {"PASS"} THEN "PASS"
    ELSE "CONCERN"

\* the gate of the last review
compute_gate_LastReview(revs) ==
    IF revs = << >> THEN "CONCERN" ELSE revs[Len(revs)].gate

\* compute_gate without its "not reviews" default
compute_gate_NoDefault(revs) ==
    LET gates == {revs[k].gate : k \in 1..Len(revs)} IN
    IF "BLOCK" \in gates THEN "BLOCK"
    ELSE IF "CONCERN" \in gates THEN "CONCERN"
    ELSE "PASS"

compute_gate(revs) ==
    IF revs = << >> THEN "CONCERN"
    ELSE LET gates == {revs[k].gate : k \in 1..Len(revs)} IN
         IF "BLOCK" \in gates THEN "BLOCK"
         ELSE IF "CONCERN" \in gates THEN "CONCERN"
         ELSE "PASS"

\* aggregate_reviews with the model names deduplicated and sorted
aggregate_reviews_SortedModels(diff_ref, revs, spec_file) ==
    LET names == {revs[k].model : k \in 1..Len(revs)}
        sorted == IF names = {"A", "B"} THEN <<"A", "B">>
                  ELSE [k \in 1..Len(revs) |-> revs[k].model]
    IN [diff_ref |-> diff_ref,
        spec_file |-> spec_file,
        models |-> sorted,
        reviews |-> revs,
        gate |-> compute_gate(revs),
        disagreements |-> find_disagreements(revs)]

aggregate_reviews(diff_ref, revs, spec_file) ==
    [diff_ref |-> diff_ref,
     spec_file |-> spec_file,
     models |-> [k \in 1..Len(revs) |-> revs[k].model],
     reviews |-> revs,
     gate |-> compute_gate(revs),
     disagreements |-> find_disagreements(revs)]

\* ------------------------------------------------------------------ prompts

\* a python value that is truthy
Truthy(x) == x \notin {None, ""}

\* build_review_prompt(diff_content, spec_content, observations): the text
\* of CODE_REVIEW_PROMPT is fixed, so a prompt is what fills its three slots
build_review_prompt(diff_content, spec_content, observations) ==
    [spec |-> IF Truthy(spec_content) THEN spec_content ELSE None,
     diff |-> diff_content,
     observations |-> observations]

\* re.search(r"```diff\n(.*?)\n```", prompt, re.DOTALL).group(1): the text
\* after the "```diff" fence up to the first line that begins with "```"
\* a diff line that begins with three backquotes
Fence == "[fence]"

RECURSIVE UpToFence(_, _)
UpToFence(lines, k) ==
    IF k > Len(lines) \/ lines[k] = Fence THEN SubSeq(lines, 1, k - 1)
    ELSE UpToFence(lines, k + 1)

\* a spec text that holds a fenced diff block of its own, whose one line is
\* "-old"
DiffInSpec == "spec text with a diff block"

\* the spec section comes before the diff in CODE_REVIEW_PROMPT, so the first
\* "```diff" fence of the prompt is the one of the spec text when it has one
ExtractDiff(p) ==
    IF p.spec = DiffInSpec THEN <<"-old">> ELSE UpToFence(p.diff, 1)

\* ------------------------------------------------------- observation runner

\* what a tool hands back for one request (the repository decides)
ToolResults == {"r1", "r2"}

\* what a tool raises: a TypeError (an argument it requires is missing) or
\* an exception of another class
ToolErrors == {"TypeError", "OSError"}

\* what awaiting tool_func(**filtered_params) does
ToolOutcomes == ToolResults \cup ToolErrors

\* the value a tool returned, and a result with an "error" key
ToolValue(v) == [error |-> << >>, value |-> v]

ErrorResult(text) == [error |-> text, value |-> None]

\* dict.get(key, default)
Get(x, default) == IF x = None THEN default ELSE x

\* inspect.signature(tool_func).parameters of the registered tools
Signature(tool) ==
    IF tool = "find_usages" THEN {"symbol", "repo_path"}
    ELSE {"file_path", "function_name", "repo_path"}

\* filtered_params with the repository root written over a repo_path of the
\* request
filtered_params_Overwrite(params, valid_params, root) ==
    LET kept == DOMAIN params \cap valid_params
    IN  [k \in kept \cup (valid_params \cap {"repo_path"}) |->
            IF k = "repo_path" THEN root ELSE params[k]]

\* the keyword arguments run_observation calls the tool with
filtered_params(params, valid_params, root) ==
    LET kept == DOMAIN params \cap valid_params
        injected == IF "repo_path" \in valid_params /\ "repo_path" \notin kept
                    THEN {"repo_path"} ELSE {}
    IN  [k \in kept \cup injected |-> IF k \in kept THEN params[k] ELSE root]

\* run_observation(name, tool, params, repo_path), the awaited tool call
\* doing what outcome says
run_observation(name, tool, params, outcome) ==
    IF tool = Unhashable THEN Raises("unhashable type: list")
    ELSE IF tool \notin OBSERVATION_TOOLS
    THEN Returns([name |-> name,
                  result |-> ErrorResult(<<"Unknown tool: ", tool>>)])
    ELSE IF params = "list" THEN Raises("list object has no attribute items")
    ELSE IF outcome = "TypeError"
    THEN Returns([name |-> name,
                  result |-> ErrorResult(<<"Parameter error: ", outcome>>)])
    ELSE IF outcome \in ToolErrors THEN Raises(outcome)
    ELSE Returns([name |-> name, result |-> ToolValue(outcome)])

\* run_observations with gather called without return_exceptions: the first
\* exception of a task is raised to the caller
run_observations_NoReturnExceptions(observations, outcomes) ==
    LET n == Len(observations)
        name(k) == Get(observations[k].name, "unnamed")
        tool(k) == observations[k].tool
        params(k) == Get(observations[k].params, "dict")
        tasks == {k \in 1..n : Truthy(tool(k))}
        stops(k) == \/ ~observations[k].dict
                    \/ ~Truthy(tool(k)) /\ name(k) = Unhashable
        ran(k) == run_observation(name(k), tool(k), params(k), outcomes[k])
        result(k) == IF ran(k).raises THEN ErrorResult(<<ran(k).error>>)
                     ELSE ran(k).value.result
        last(nm) == CHOOSE k \in tasks :
                        /\ name(k) = nm
                        /\ \A j \in tasks : name(j) = nm => j <= k
    IN IF \E k \in 1..n : stops(k)
       THEN LET k == CHOOSE j \in 1..n :
                         stops(j) /\ \A h \in 1..(j - 1) : ~stops(h)
            IN IF observations[k].dict THEN Raises("unhashable type: list")
               ELSE Raises("no attribute get")
       ELSE IF \E k \in tasks : ran(k).raises
       THEN LET k == CHOOSE j \in tasks :
                         ran(j).raises /\ \A h \in tasks : ran(h).raises => j <= h
            IN Raises(ran(k).error)
       ELSE IF \E k \in tasks : name(k) = Unhashable
       THEN Raises("unhashable type: list")
       ELSE Returns([nm \in {name(k) : k \in 1..n} |->
                        IF \E k \in tasks : name(k) = nm THEN result(last(nm))
                        ELSE ErrorResult(<<"No tool specified">>)])

\* run_observations(observations, repo_path), outcomes[k] being what the
\* tool call of request k does: the first loop stores the requests without a
\* tool and collects the others as tasks, the second stores what gather
\* returned for the tasks, in the order of the requests
run_observations(observations, outcomes) ==
    LET n == Len(observations)
        name(k) == Get(observations[k].name, "unnamed")
        tool(k) == observations[k].tool
        params(k) == Get(observations[k].params, "dict")
        tasks == {k \in 1..n : Truthy(tool(k))}
        stops(k) == \/ ~observations[k].dict
                    \/ ~Truthy(tool(k)) /\ name(k) = Unhashable
        ran(k) == run_observation(name(k), tool(k), params(k), outcomes[k])
        result(k) == IF ran(k).raises THEN ErrorResult(<<ran(k).error>>)
                     ELSE ran(k).value.result
        last(nm) == CHOOSE k \in tasks :
                        /\ name(k) = nm
                        /\ \A j \in tasks : name(j) = nm => j <= k
    IN IF \E k \in 1..n : stops(k)
       THEN LET k == CHOOSE j \in 1..n :
                         stops(j) /\ \A h \in 1..(j - 1) : ~stops(h)
            IN IF observations[k].dict THEN Raises("unhashable type: list")
               ELSE Raises("no attribute get")
       ELSE IF \E k \in tasks : name(k) = Unhashable
       THEN Raises("unhashable type: list")
       ELSE Returns([nm \in {name(k) : k \in 1..n} |->
                        IF \E k \in tasks : name(k) = nm THEN result(last(nm))
                        ELSE ErrorResult(<<"No tool specified">>)])

\* the first loop of run_observations raises: no task is ever awaited
FirstLoopRaises(observations) ==
    \E k \in 1..Len(observations) :
        \/ ~observations[k].dict
        \/ /\ ~Truthy(observations[k].tool)
           /\ Get(observations[k].name, "unnamed") = Unhashable

\* the request is handed to run_observation as one of the tasks of gather
IsTask(obs) == obs.dict /\ Truthy(obs.tool)

\* a task of gather that has not completed
Running == "running"

\* ------------------------------------------------------------- review loop

\* MODEL_COMMANDS.keys()
MODEL_COMMANDS == {"claude", "gemini"}

\* the except branch answering CONCERN instead of BLOCK
ErrorReview_Concern(model, e) ==
    ModelReview(model, "CONCERN",
                <<ChangeVerdict(<<Line("H", "ERROR")>>, "CONCERN",
                                None, None, None, None,
                                <<Line("T", "Model invocation failed: "),
                                  Line("T", e)>>)>>,
                <<Line("T", e)>>)

\* the synthetic review of the except branch of review_with_model
ErrorReview(model, e) ==
    ModelReview(model, "BLOCK",
                <<ChangeVerdict(<<Line("H", "ERROR")>>, "BLOCK",
                                None, None, None, None,
                                <<Line("T", "Model invocation failed: "),
                                  Line("T", e)>>)>>,
                <<Line("T", e)>>)

\* review.observations = accumulated_observations, when there are any
Attach(review, accumulated) ==
    IF accumulated # EmptyMap
    THEN [review EXCEPT !.observations = accumulated]
    ELSE review

NewTask ==
    [pc |-> "pending", iteration |-> 0, current_prompt |-> prompt,
     response |-> << >>, requested |-> << >>, accumulated |-> EmptyMap,
     outcomes |-> << >>, model_calls |-> 0, obs_runs |-> 0, error |-> None,
     review |-> Nothing]

Tasks == DOMAIN task

\* the task starts to run: with max_observations >= 0 the loop body runs, and
\* the first thing it does is await run_model(model, current_prompt)
Start(i) ==
    /\ task[i].pc = "pending"
    /\ task' = [task EXCEPT ![i].pc = "awaiting_model", ![i].model_calls = 1]
    /\ UNCHANGED <<inputVars, results, aggregate, parseVars, aggVars, obsVars, cliVars>>

\* parse_observations raising inside the try block: the except branch
Failed(t, model, resp, e) ==
    [t EXCEPT !.pc = "done", !.response = resp, !.error = e,
              !.review = Some(ErrorReview(model, e))]

\* the loop body with the budget test off by one
AfterResponse_OffByOne(t, model, resp) ==
    LET call == parse_observations(resp)
        requested_obs == call.value
    IN
    IF call.raises THEN Failed(t, model, resp, call.error)
    ELSE IF requested_obs = << >> \/ t.iteration > max_observations
    THEN [t EXCEPT !.pc = "done", !.response = resp,
                   !.review = Some(Attach(parse_review_response(model, resp),
                                          t.accumulated))]
    ELSE IF Truthy(repo_path)
    THEN [t EXCEPT !.pc = "observing", !.response = resp,
                   !.requested = requested_obs,
                   !.outcomes = [k \in DOMAIN requested_obs |-> Running],
                   !.obs_runs = @ + 1]
    ELSE [t EXCEPT !.pc = "done", !.response = resp,
                   !.review = Some(parse_review_response(model, resp))]

\* the lines of the loop body that follow "response = await run_model(...)"
AfterResponse(t, model, resp) ==
    LET call == parse_observations(resp)
        requested_obs == call.value
    IN
    IF call.raises THEN Failed(t, model, resp, call.error)
    ELSE IF requested_obs = << >> \/ t.iteration >= max_observations
    THEN [t EXCEPT !.pc = "done", !.response = resp,
                   !.review = Some(Attach(parse_review_response(model, resp),
                                          t.accumulated))]
    ELSE IF Truthy(repo_path)
    THEN [t EXCEPT !.pc = "observing", !.response = resp,
                   !.requested = requested_obs,
                   !.outcomes = [k \in DOMAIN requested_obs |-> Running],
                   !.obs_runs = @ + 1]
    ELSE [t EXCEPT !.pc = "done", !.response = resp,
                   !.review = Some(parse_review_response(model, resp))]

\* run_model returns the model's answer
ModelReturns(i, resp) ==
    /\ task[i].pc = "awaiting_model"
    /\ models[i] \in MODEL_COMMANDS
    /\ task' = [task EXCEPT ![i] = AfterResponse(task[i], models[i], resp)]
    /\ UNCHANGED <<inputVars, results, aggregate, parseVars, aggVars, obsVars, cliVars>>

\* run_model's exception escaping review_with_model: gather re-raises it and
\* the caller gets no review of the models still running
ModelRaises_AbortsSiblings(i, e) ==
    /\ task[i].pc = "awaiting_model"
    /\ IF models[i] \in MODEL_COMMANDS
       THEN e \in {"timed out", "failed"}
       ELSE e = "Unknown model"
    /\ task' = [j \in Tasks |->
                   IF j = i
                   THEN [task[j] EXCEPT !.pc = "done", !.error = e,
                                        !.review = Some(ErrorReview(models[j], e))]
                   ELSE IF task[j].pc # "done"
                   THEN [task[j] EXCEPT !.pc = "done",
                                        !.review = Some(ErrorReview(models[j], e))]
                   ELSE task[j]]
    /\ UNCHANGED <<inputVars, results, aggregate, parseVars, aggVars, obsVars, cliVars>>

\* run_model raises: ValueError for a model that is not in MODEL_COMMANDS,
\* TimeoutError or RuntimeError for one that is
ModelRaises(i, e) ==
    /\ task[i].pc = "awaiting_model"
    /\ IF models[i] \in MODEL_COMMANDS
       THEN e \in {"timed out", "failed"}
       ELSE e = "Unknown model"
    /\ task' = [task EXCEPT ![i].pc = "done",
                            ![i].error = e,
                            ![i].review = Some(ErrorReview(models[i], e))]
    /\ UNCHANGED <<inputVars, results, aggregate, parseVars, aggVars, obsVars, cliVars>>

\* accumulated_observations as one dict shared by the loops: the results are
\* merged into every task's accumulated set
ObservationsReturn_Shared(i, outcomes) ==
    /\ task[i].pc = "observing"
    /\ DOMAIN outcomes = DOMAIN task[i].requested
    /\ LET call == run_observations(task[i].requested, outcomes)
           acc == Update(task[i].accumulated, call.value)
       IN /\ ~call.raises
          /\ task' = [j \in Tasks |->
                         IF j = i
                         THEN [task[j] EXCEPT
                                  !.pc = "awaiting_model",
                                  !.outcomes = outcomes,
                                  !.accumulated = acc,
                                  !.current_prompt =
                                      build_review_prompt(ExtractDiff(prompt), None, acc),
                                  !.iteration = @ + 1,
                                  !.model_calls = @ + 1]
                         ELSE [task[j] EXCEPT
                                  !.accumulated = Update(@, call.value)]]
    /\ UNCHANGED <<inputVars, results, aggregate, parseVars, aggVars, obsVars, cliVars>>

\* run_observations returns: the results are merged, the prompt is rebuilt
\* and the next iteration awaits run_model
ObservationsReturn(i, outcomes) ==
    /\ task[i].pc = "observing"
    /\ DOMAIN outcomes = DOMAIN task[i].requested
    /\ LET call == run_observations(task[i].requested, outcomes)
           acc == Update(task[i].accumulated, call.value)
       IN /\ ~call.raises
          /\ task' = [task EXCEPT
                         ![i].pc = "awaiting_model",
                         ![i].outcomes = outcomes,
                         ![i].accumulated = acc,
                         ![i].current_prompt =
                             build_review_prompt(ExtractDiff(prompt), None, acc),
                         ![i].iteration = @ + 1,
                         ![i].model_calls = @ + 1]
    /\ UNCHANGED <<inputVars, results, aggregate, parseVars, aggVars, obsVars, cliVars>>

\* run_observations raises (a request that is not a dict has no .get)
ObservationsRaise(i, outcomes) ==
    /\ task[i].pc = "observing"
    /\ DOMAIN outcomes = DOMAIN task[i].requested
    /\ LET call == run_observations(task[i].requested, outcomes) IN
       /\ call.raises
       /\ task' = [task EXCEPT
                      ![i].pc = "done",
                      ![i].error = call.error,
                      ![i].review = Some(ErrorReview(models[i], call.error))]
    /\ UNCHANGED <<inputVars, results, aggregate, parseVars, aggVars, obsVars, cliVars>>

\* one run_observation task of the gather in run_observations completes,
\* its tool call doing what outcome says; the tasks complete in any order
ToolReturns(i, k, outcome) ==
    /\ task[i].pc = "observing"
    /\ k \in DOMAIN task[i].requested
    /\ ~FirstLoopRaises(task[i].requested)
    /\ IsTask(task[i].requested[k])
    /\ task[i].outcomes[k] = Running
    /\ \/ /\ task[i].requested[k].tool \in OBSERVATION_TOOLS
          /\ task[i].requested[k].params # "list"
       \/ outcome = "r1"
    /\ task' = [task EXCEPT ![i].outcomes[k] = outcome]
    /\ UNCHANGED <<inputVars, results, aggregate, parseVars, aggVars, obsVars, cliVars>>

AllComplete(t) ==
    \A k \in DOMAIN t.requested : IsTask(t.requested[k]) => t.outcomes[k] # Running

\* gather returning as soon as one task has completed
GatherReturns_FirstCompleted(i) ==
    /\ \E k \in DOMAIN task[i].requested :
           IsTask(task[i].requested[k]) /\ task[i].outcomes[k] # Running
    /\ ObservationsReturn(i, task[i].outcomes)

\* "await asyncio.gather(*tasks, return_exceptions=True)" returns once every
\* task has completed, and run_observations returns
GatherReturns(i) ==
    /\ AllComplete(task[i])
    /\ ObservationsReturn(i, task[i].outcomes)

\* run_observations raises, in its first loop or after gather has returned
GatherRaises(i) ==
    /\ FirstLoopRaises(task[i].requested) \/ AllComplete(task[i])
    /\ ObservationsRaise(i, task[i].outcomes)

\* asyncio.gather(*tasks) returns once every task has returned
Gather ==
    /\ results = Nothing
    /\ \A i \in Tasks : task[i].pc = "done"
    /\ results' = Some([i \in Tasks |-> task[i].review[1]])
    /\ UNCHANGED <<inputVars, task, aggregate, parseVars, aggVars, obsVars, cliVars>>

\* cli: result = aggregate_reviews(diff_ref, reviews, spec)
Aggregate ==
    /\ results # Nothing
    /\ aggregate = Nothing
    /\ aggregate' = Some(aggregate_reviews("branch", results[1], prompt.spec))
    /\ UNCHANGED <<inputVars, task, results, parseVars, aggVars, obsVars, cliVars>>

\* ------------------------------------------------------------------ inputs

Change(id, vtext) == <<Line("H", id), Line("V", vtext), Line("R", "why")>>

Obs(json) == <<Line("OBS", json)>>

\* the answers a model gives in the review loop
LoopResponses ==
    { << >>,
      Change("a", "PASS"),
      Change("a", "BLOCK"),
      Change("b", "MAYBE") \o Change("a", "PASS"),
      Change("a", "PASS") \o Obs("[o1]"),
      Obs("[o1,o2]"),
      Obs("[1]"),
      Obs("{}"),
      Obs("[99..99]") }

\* the original prompts: build_review_prompt(diff, spec) of the cli
Prompts ==
    { build_review_prompt(<<"+x">>, "spec text", EmptyMap),
      build_review_prompt(<<"+x", Fence, "+y">>, None, EmptyMap) }

\* the model lists of the concurrent reviews
ModelLists ==
    { << >>, <<"claude", "gemini">>, <<"gemini", "gpt">>, <<"gpt", "claude">> }

ParseIdle ==
    /\ response = << >>
    /\ parsed = Nothing
    /\ parsed_obs = Nothing
    /\ verdict_text = ""
    /\ verdict_out = Nothing

ObsIdle ==
    /\ obs_requests = << >>
    /\ tool_outcomes = << >>
    /\ obs_results = Nothing
    /\ tool_call = Nothing
    /\ analysis = Nothing

CliIdle ==
    cli = [pc |-> "idle", lint |-> FALSE, output_dir |-> None,
           exit_code |-> Nothing]

AggIdle ==
    /\ reviews = << >>
    /\ agg_args = [diff_ref |-> "branch", spec_file |-> None]
    /\ agg_out = Nothing

LoopIdle ==
    /\ models = << >>
    /\ repo_path = None
    /\ max_observations = 0
    /\ prompt = build_review_prompt(<< >>, None, EmptyMap)
    /\ task = << >>
    /\ results = Nothing
    /\ aggregate = Nothing

\* several models reviewed concurrently
Init ==
    /\ models \in ModelLists
    /\ repo_path \in {None, "/repo"}
    /\ max_observations \in {0, 1}
    /\ prompt \in Prompts
    /\ task = [i \in 1..Len(models) |-> NewTask]
    /\ results = Nothing
    /\ aggregate = Nothing
    /\ ParseIdle
    /\ AggIdle
    /\ ObsIdle
    /\ CliIdle

\* one model, every budget up to MaxBudget
InitLoop ==
    /\ models \in {<<"claude">>, <<"gpt">>}
    /\ repo_path \in {None, "/repo"}
    /\ max_observations \in 0..MaxBudget
    /\ prompt \in Prompts \cup { build_review_prompt(<<"+x">>, DiffInSpec, EmptyMap) }
    /\ task = [i \in 1..Len(models) |-> NewTask]
    /\ results = Nothing
    /\ aggregate = Nothing
    /\ ParseIdle
    /\ AggIdle
    /\ ObsIdle
    /\ CliIdle

Next ==
    \/ \E i \in Tasks : Start(i)
    \/ \E i \in Tasks, resp \in LoopResponses : ModelReturns(i, resp)
    \/ \E i \in Tasks, e \in {"timed out", "failed", "Unknown model"} :
          ModelRaises(i, e)
    \/ \E i \in Tasks :
          \E outcomes \in [DOMAIN task[i].requested -> ToolOutcomes] :
              ObservationsReturn(i, outcomes)
    \/ \E i \in Tasks :
          \E outcomes \in [DOMAIN task[i].requested -> ToolOutcomes] :
              ObservationsRaise(i, outcomes)
    \/ Gather
    \/ Aggregate

Spec == Init /\ [][Next]_vars

SpecLoop == InitLoop /\ [][Next]_vars

\* every awaited call returns or raises, and the event loop runs what is ready
SpecLoopFair == InitLoop /\ [][Next]_vars /\ WF_vars(Next)

\* one model with a repository, the tasks of each observation round
\* completing one by one
InitSteps ==
    /\ models = <<"claude">>
    /\ repo_path = "/repo"
    /\ max_observations \in {1, 2}
    /\ prompt \in Prompts
    /\ task = [i \in 1..Len(models) |-> NewTask]
    /\ results = Nothing
    /\ aggregate = Nothing
    /\ ParseIdle
    /\ AggIdle
    /\ ObsIdle
    /\ CliIdle

NextSteps ==
    \/ \E i \in Tasks : Start(i)
    \/ \E i \in Tasks, resp \in LoopResponses : ModelReturns(i, resp)
    \/ \E i \in Tasks, e \in {"timed out", "failed", "Unknown model"} :
          ModelRaises(i, e)
    \/ \E i \in Tasks, k \in 1..MaxRequests, outcome \in ToolOutcomes :
          ToolReturns(i, k, outcome)
    \/ \E i \in Tasks : GatherReturns(i)
    \/ \E i \in Tasks : GatherRaises(i)

SpecSteps == InitSteps /\ [][NextSteps]_vars

\* ----------------------------------------------------------- parser harness

\* change blocks with secondary-axis fields: every field with a label, an
\* unknown word, a text that is not one word, "N/A" and "NA" for
\* SPEC_COMPLIANCE, and fields out of their order
FieldChanges ==
    { <<Line("H", "a"), Line("V", "PASS"), Line("C", "valid"), Line("S", "n/a"),
        Line("TC", "COVERED"), Line("I", "WIRED"), Line("R", "why")>>,
      <<Line("H", "a"), Line("V", "PASS"), Line("C", "MAYBE"), Line("R", "why")>>,
      <<Line("H", "a"), Line("V", "BLOCK"), Line("C", "N/A"), Line("R", "why")>>,
      <<Line("H", "b"), Line("V", "PASS"), Line("S", "NA"), Line("I", "PARTIAL"),
        Line("R", "why")>>,
      <<Line("H", "b"), Line("V", "PASS"), Line("S", "NOT SURE"),
        Line("TC", "PARTIAL"), Line("R", "why")>>,
      <<Line("H", "b"), Line("V", "CONCERN"), Line("C", "BROKEN"),
        Line("TC", "NOT SURE"), Line("R", "why")>>,
      <<Line("H", "b"), Line("V", "PASS"), Line("I", "MISSING"),
        Line("C", "VALID"), Line("R", "why")>> }

\* SELF_REVIEW blocks: the three labels, one in lower case, a text that is
\* no label, and a block without its LIMITATIONS field
SelfReviewBlocks ==
    { <<Line("H", "SELF_REVIEW"), Line("CF", conf), Line("L", "none")>> :
          conf \in {"HIGH", "MEDIUM", "low", "UNSURE"} }
    \cup { <<Line("H", "SELF_REVIEW"), Line("CF", "HIGH")>> }

\* what a raw response is put together from: single lines and whole change
\* blocks, in any order
ParseBlocks ==
    { <<Line("H", "a")>>, <<Line("V", "PASS")>>, <<Line("V", "MAYBE")>>,
      <<Line("R", "why")>>, <<Line("RULE", "")>>, <<Line("T", "text")>>,
      <<Line("B", "")>>, Obs("[o1]"), Obs("[o1,o2]"), Obs("{}"), Obs("[o1"),
      Obs("[99..99]") }
    \cup { Change(id, vtext) : id \in {"a", "b"},
                               vtext \in {"PASS", "CONCERN", "BLOCK", "pass", "MAYBE"} }
    \cup FieldChanges
    \cup SelfReviewBlocks

\* the texts handed to parse_verdict
VerdictTexts ==
    { "PASS", "CONCERN", "BLOCK", "pass", "Concern", " Block ", LongS,
      "", "MAYBE", " maybe ", "PASSED", "N/A", "P A S S" }

RECURSIVE Concat(_)
Concat(blocks) ==
    IF blocks = << >> THEN << >> ELSE Head(blocks) \o Concat(Tail(blocks))

InitParse ==
    /\ ParseIdle
    /\ AggIdle
    /\ LoopIdle
    /\ ObsIdle
    /\ CliIdle

AppendBlock(b) ==
    /\ parsed = Nothing
    /\ parsed_obs = Nothing
    /\ verdict_out = Nothing
    /\ Len(response) < MaxBlocks
    /\ response' = Append(response, b)
    /\ UNCHANGED <<loopVars, parsed, parsed_obs, verdict_text, verdict_out,
                   aggVars, obsVars, cliVars>>

ParseResponse ==
    /\ parsed = Nothing
    /\ verdict_out = Nothing
    /\ parsed' = Some(parse_review_response("test", Concat(response)))
    /\ UNCHANGED <<loopVars, response, parsed_obs, verdict_text,
                   verdict_out, aggVars, obsVars, cliVars>>

ParseObservations ==
    /\ parsed_obs = Nothing
    /\ verdict_out = Nothing
    /\ parsed_obs' = Some(parse_observations(Concat(response)))
    /\ UNCHANGED <<loopVars, response, parsed, verdict_text, verdict_out,
                   aggVars, obsVars, cliVars>>

ParseVerdict(text) ==
    /\ response = << >>
    /\ parsed = Nothing
    /\ parsed_obs = Nothing
    /\ verdict_out = Nothing
    /\ verdict_text' = text
    /\ verdict_out' = Some(parse_verdict(text))
    /\ UNCHANGED <<loopVars, response, parsed, parsed_obs, aggVars, obsVars, cliVars>>

NextParse ==
    \/ \E b \in ParseBlocks : AppendBlock(b)
    \/ ParseResponse
    \/ ParseObservations
    \/ \E text \in VerdictTexts : ParseVerdict(text)

SpecParse == InitParse /\ [][NextParse]_vars

\* ------------------------------------------------------- aggregator harness

Chg(id, v) ==
    ChangeVerdict(<<Line("H", id)>>, v, None, None, None, None,
                  <<Line("R", "why")>>)

\* reviews of one change and of two, in either order, and one that reports a
\* change twice
TwoChanges ==
    { <<Chg("x", "CONCERN")>>,
      <<Chg("x", "PASS"), Chg("y", "CONCERN")>>,
      <<Chg("x", "PASS"), Chg("y", "PASS")>>,
      <<Chg("y", "CONCERN"), Chg("x", "CONCERN")>>,
      <<Chg("x", "CONCERN"), Chg("y", "BLOCK")>>,
      <<Chg("y", "BLOCK"), Chg("x", "BLOCK")>>,
      <<Chg("x", "BLOCK"), Chg("y", "PASS")>>,
      <<Chg("x", "PASS"), Chg("x", "BLOCK")>> }

\* the reviews handed to the aggregator: any gate with no change or one, and
\* the reviews of TwoChanges with the gate the parser gives them
ReviewSet ==
    { ModelReview(m, g, ch, << >>) :
        m \in {"A", "B"},
        g \in Verdict,
        ch \in { << >>, <<Chg("x", "PASS")>>, <<Chg("x", "BLOCK")>> } }
    \cup { ModelReview(m, ChangesGate(ch), ch, << >>) :
              m \in {"A", "B"}, ch \in TwoChanges }

\* the reviews of a further model
ThirdReviews ==
    { ModelReview("C", "CONCERN", <<Chg("y", "CONCERN")>>, << >>),
      ModelReview("C", "PASS", <<Chg("x", "PASS")>>, << >>) }

InitAgg ==
    /\ reviews = << >>
    /\ agg_args \in {[diff_ref |-> "branch", spec_file |-> None],
                     [diff_ref |-> "HEAD~1", spec_file |-> "spec.md"]}
    /\ agg_out = Nothing
    /\ ParseIdle
    /\ LoopIdle
    /\ ObsIdle
    /\ CliIdle

AddReview(r) ==
    /\ agg_out = Nothing
    /\ Len(reviews) < MaxReviews
    /\ reviews' = Append(reviews, r)
    /\ UNCHANGED <<loopVars, parseVars, agg_args, agg_out, obsVars, cliVars>>

\* a review of a further model after the reviews of the first two
AddThird(r) ==
    /\ agg_out = Nothing
    /\ Len(reviews) = MaxReviews
    /\ reviews' = Append(reviews, r)
    /\ UNCHANGED <<loopVars, parseVars, agg_args, agg_out, obsVars, cliVars>>

RunAggregate ==
    /\ agg_out = Nothing
    /\ agg_out' = Some(aggregate_reviews(agg_args.diff_ref, reviews,
                                         agg_args.spec_file))
    /\ UNCHANGED <<loopVars, parseVars, reviews, agg_args, obsVars, cliVars>>

NextAgg ==
    \/ \E r \in ReviewSet : AddReview(r)
    \/ \E r \in ThirdReviews : AddThird(r)
    \/ RunAggregate

SpecAgg == InitAgg /\ [][NextAgg]_vars

\* ----------------------------------------------------------- runner harness

\* the elements of a parsed JSON array that run_observations is handed
ObsRequests ==
    { Request("o1", "find_usages", "dict"),
      Request("o2", "call_graph", None),
      Request("o3", "nope", "dict"),
      Request("o1", "nope", None),
      Request("o3", None, "dict"),
      Request("o2", "", "dict"),
      Request(None, "find_usages", "dict"),
      Request(None, None, None),
      Request("o1", "find_usages", "list"),
      Request(Unhashable, "find_usages", "dict"),
      Request("o3", Unhashable, "dict"),
      NonDict }

InitObs ==
    /\ ObsIdle
    /\ CliIdle
    /\ ParseIdle
    /\ AggIdle
    /\ LoopIdle

\* one more request in the list; a request that names no registered tool
\* calls none, so it is given no outcome to choose from
AddRequest(obs, outcome) ==
    /\ obs_results = Nothing
    /\ Len(obs_requests) < MaxRequests
    /\ obs.tool \in OBSERVATION_TOOLS \/ outcome = "r1"
    /\ obs_requests' = Append(obs_requests, obs)
    /\ tool_outcomes' = Append(tool_outcomes, outcome)
    /\ UNCHANGED <<loopVars, parseVars, aggVars, obs_results, tool_call, analysis,
                   cliVars>>

RunObservations ==
    /\ obs_results = Nothing
    /\ obs_results' = Some(run_observations(obs_requests, tool_outcomes))
    /\ UNCHANGED <<loopVars, parseVars, aggVars, obs_requests, tool_outcomes, tool_call,
                   analysis, cliVars>>

NextObs ==
    \/ \E obs \in ObsRequests, outcome \in ToolOutcomes : AddRequest(obs, outcome)
    \/ RunObservations

SpecObs == InitObs /\ [][NextObs]_vars

\* the params objects of the requests: any keys, a repo_path of the request
\* being another path or null
ParamDicts ==
    UNION { { f \in [K -> {"v", "/other", None}] :
                \A k \in K : (f[k] = "v") <=> (k # "repo_path") } :
            K \in SUBSET {"symbol", "file_path", "function_name", "bogus", "repo_path"} }

\* one call of run_observation: a registered tool is called with the filtered
\* params, and a call that lacks a parameter without a default raises
\* TypeError
RunObservation(tool, params, root, outcome) ==
    /\ tool \in OBSERVATION_TOOLS \/ outcome = "r1"
    /\ \/ tool \notin OBSERVATION_TOOLS
       \/ LET required == IF tool = "find_usages" THEN {"symbol", "repo_path"}
                          ELSE {"file_path", "function_name"}
          IN  required \subseteq DOMAIN filtered_params(params, Signature(tool), root)
       \/ outcome = "TypeError"
    /\ tool_call' =
           Some([tool |-> tool, params |-> params, root |-> root,
                 received |-> IF tool \in OBSERVATION_TOOLS
                              THEN Some(filtered_params(params, Signature(tool), root))
                              ELSE Nothing,
                 result |-> run_observation("o1", tool, "dict", outcome)])
    /\ UNCHANGED <<loopVars, parseVars, aggVars, obs_requests, tool_outcomes,
                   obs_results, analysis, cliVars>>

NextCall ==
    \E tool \in OBSERVATION_TOOLS \cup {"nope"}, params \in ParamDicts, outcome \in ToolOutcomes :
        RunObservation(tool, params, "/repo", outcome)

SpecCall == InitObs /\ [][NextCall]_vars

\* ---------------------------------------------------------- raises_analysis

\* the statements of an analysed function, as the nodes of its syntax tree:
\* "raise" with the name _get_exception_name gives (None for a bare raise),
\* "try" with body, handlers, orelse and finalbody, "if" with a body, and
\* "expr" for a statement that holds neither
Node(kind, exc, body, handlers, orelse, finalbody) ==
    [kind |-> kind, exc |-> exc, body |-> body, handlers |-> handlers,
     orelse |-> orelse, finalbody |-> finalbody]

RaiseStmt(exc) == Node("raise", exc, << >>, << >>, << >>, << >>)

ExprStmt == Node("expr", None, << >>, << >>, << >>, << >>)

TryStmt(body, handlers, orelse, finalbody) ==
    Node("try", None, body, handlers, orelse, finalbody)

\* an except clause: bare, or naming one type or a tuple of types
ExceptHandler(bare, names, body) == [bare |-> bare, names |-> names, body |-> body]

\* _get_caught_exceptions(handlers)
RECURSIVE _get_caught_exceptions(_)
_get_caught_exceptions(handlers) ==
    IF handlers = << >> THEN {}
    ELSE (IF Head(handlers).bare THEN {"*"} ELSE Head(handlers).names)
            \cup _get_caught_exceptions(Tail(handlers))

RECURSIVE visit(_, _)
RECURSIVE VisitEach(_, _)
RECURSIVE VisitHandlers(_, _)

\* _RaisesVisitor.visit_Try: what it appends to self.raises
visit_Try(node, caught_stack) ==
    LET inside == Append(caught_stack, _get_caught_exceptions(node.handlers))
    IN  VisitEach(node.body, inside)
            \o VisitEach(node.orelse, caught_stack)
            \o VisitEach(node.finalbody, caught_stack)
            \o VisitHandlers(node.handlers, caught_stack)

\* _RaisesVisitor.visit_Raise
visit_Raise(node, caught_stack) ==
    LET is_caught == \E j \in DOMAIN caught_stack :
                        \/ "*" \in caught_stack[j]
                        \/ node.exc \in caught_stack[j]
                        \/ "Exception" \in caught_stack[j]
                        \/ "BaseException" \in caught_stack[j]
    IN  IF node.exc # None /\ ~is_caught THEN <<node.exc>> ELSE << >>

\* NodeVisitor.visit: the visit_ method of the node's class, generic_visit
\* for the other nodes
visit(node, caught_stack) ==
    IF node.kind = "raise" THEN visit_Raise(node, caught_stack)
    ELSE IF node.kind = "try" THEN visit_Try(node, caught_stack)
    ELSE VisitEach(node.body, caught_stack)

\* the loops "for child in ...: self.visit(child)"
VisitEach(nodes, caught_stack) ==
    IF nodes = << >> THEN << >>
    ELSE visit(Head(nodes), caught_stack) \o VisitEach(Tail(nodes), caught_stack)

\* the loop over the bodies of the handlers
VisitHandlers(handlers, caught_stack) ==
    IF handlers = << >> THEN << >>
    ELSE VisitEach(Head(handlers).body, caught_stack)
            \o VisitHandlers(Tail(handlers), caught_stack)

\* raises_analysis of a file that holds the function with this body: its
\* explicit_raises, list(set(visitor.raises))
raises_analysis(function_body) ==
    LET found == VisitEach(function_body, << >>)
    IN  {found[j] : j \in DOMAIN found}

\* the except clauses of the analysed functions: bare, Exception,
\* BaseException, one type, a tuple of types
HandlerTypes ==
    { [bare |-> TRUE, names |-> {}],
      [bare |-> FALSE, names |-> {"Exception"}],
      [bare |-> FALSE, names |-> {"BaseException"}],
      [bare |-> FALSE, names |-> {"LookupError"}],
      [bare |-> FALSE, names |-> {"ValueError"}],
      [bare |-> FALSE, names |-> {"KeyError", "TypeError"}] }

\* a try statement with one except clause that holds stmt at place
TryWith(h, place, stmt) ==
    LET at(here) == IF place = here THEN <<stmt>> ELSE <<ExprStmt>>
    IN  TryStmt(at("body"),
                <<ExceptHandler(h.bare, h.names, at("handler"))>>,
                at("orelse"),
                at("finalbody"))

\* the function of test_raises_analysis
TestFunction ==
    << Node("if", None, <<RaiseStmt("ValueError")>>, << >>, << >>, << >>),
       TryStmt(<<ExprStmt>>,
               <<ExceptHandler(FALSE, {"Exception"}, <<RaiseStmt("RuntimeError")>>)>>,
               << >>, << >>) >>

\* the bodies of the analysed functions: a raise in one clause of a try
\* statement, and in a try statement that is itself in a clause of another
FunctionBodies ==
    LET places == {"body", "handler", "orelse", "finalbody"}
        raised == {"ValueError", "KeyError", "KeyboardInterrupt", "RuntimeError"}
    IN  {TestFunction}
            \cup { <<TryWith(h, p, RaiseStmt(e))>> :
                     h \in HandlerTypes, p \in places, e \in raised \cup {None} }
            \cup { <<TryWith(h2, p2, TryWith(h, p, RaiseStmt(e)))>> :
                     h2 \in HandlerTypes, p2 \in places,
                     h \in HandlerTypes, p \in places, e \in raised }

\* one call of raises_analysis on a file that holds the function
RaisesAnalysis(function_body) ==
    /\ analysis = Nothing
    /\ analysis' = Some([body |-> function_body,
                         explicit_raises |-> raises_analysis(function_body)])
    /\ UNCHANGED <<loopVars, parseVars, aggVars, obs_requests, tool_outcomes,
                   obs_results, tool_call, cliVars>>

NextAnalysis == \E function_body \in FunctionBodies : RaisesAnalysis(function_body)

SpecAnalysis == InitObs /\ [][NextAnalysis]_vars

\* ------------------------------------------------------------- gate command

\* what review_with_models returns to the gate command: one review, or two
\* of different models
GateReviews ==
    LET of(m) == {r \in ReviewSet : r.model = m /\ r.gate = ChangesGate(r.changes)}
    IN { <<r>> : r \in of("A") }
       \cup { <<r1, r2>> : r1 \in of("A"), r2 \in of("B") }

\* --output-dir: not given, a directory that can be written, and a path that
\* cannot be made a directory (an existing file)
InitGate ==
    /\ cli \in [pc : {"lint"}, lint : BOOLEAN, output_dir : {None, "out", "README.md"},
                 exit_code : {Nothing}]
    /\ reviews = << >>
    /\ agg_args \in {[diff_ref |-> "staged", spec_file |-> None],
                     [diff_ref |-> "branch", spec_file |-> "spec.md"]}
    /\ agg_out = Nothing
    /\ ParseIdle
    /\ LoopIdle
    /\ ObsIdle

\* sys.exit(code), and an exception that nothing catches
Exited(code) == [cli EXCEPT !.pc = "exited", !.exit_code = Some(code)]

\* the lint gate: skipped without --lint and --fix-lint, sys.exit(2) when the
\* checks fail
Lint(passed) ==
    /\ cli.pc = "lint"
    /\ cli.lint \/ passed
    /\ cli' = IF passed THEN [cli EXCEPT !.pc = "preflight"] ELSE Exited(2)
    /\ UNCHANGED <<loopVars, parseVars, aggVars, obsVars>>

\* preflight_check(models): sys.exit(2) when a model's tool is missing
Preflight(missing) ==
    /\ cli.pc = "preflight"
    /\ cli' = IF missing THEN Exited(2) ELSE [cli EXCEPT !.pc = "diff"]
    /\ UNCHANGED <<loopVars, parseVars, aggVars, obsVars>>

\* get_diff: a RuntimeError exits 2, an empty diff exits 0
GetDiff(outcome) ==
    /\ cli.pc = "diff"
    /\ cli' = CASE outcome = "RuntimeError" -> Exited(2)
                [] outcome = "empty" -> Exited(0)
                [] OTHER -> [cli EXCEPT !.pc = "review"]
    /\ UNCHANGED <<loopVars, parseVars, aggVars, obsVars>>

\* reviews = asyncio.run(review_with_models(models, prompt)) and
\* result = aggregate_reviews(diff_ref, reviews, spec)
RunReviews(rs) ==
    /\ cli.pc = "review"
    /\ reviews' = rs
    /\ agg_out' = Some(aggregate_reviews(agg_args.diff_ref, rs, agg_args.spec_file))
    /\ cli' = [cli EXCEPT !.pc = "save"]
    /\ UNCHANGED <<loopVars, parseVars, agg_args, obsVars>>

\* "if output_dir:" os.makedirs and the writes of the report and of the raw
\* responses; an OSError of theirs is caught nowhere and ends the process
\* with status 1
SaveOutputs(written) ==
    /\ cli.pc = "save"
    /\ Truthy(cli.output_dir) \/ written
    /\ cli.output_dir = "README.md" => ~written
    /\ cli' = IF written THEN [cli EXCEPT !.pc = "exit"] ELSE Exited(1)
    /\ UNCHANGED <<loopVars, parseVars, aggVars, obsVars>>

\* the exit code of the gate
Exit ==
    /\ cli.pc = "exit"
    /\ cli' = CASE agg_out[1].gate = "PASS" -> Exited(0)
                [] agg_out[1].gate = "CONCERN" -> Exited(1)
                [] OTHER -> Exited(2)
    /\ UNCHANGED <<loopVars, parseVars, aggVars, obsVars>>

NextGate ==
    \/ \E passed \in BOOLEAN : Lint(passed)
    \/ \E missing \in BOOLEAN : Preflight(missing)
    \/ \E outcome \in {"RuntimeError", "empty", "diff"} : GetDiff(outcome)
    \/ \E rs \in GateReviews : RunReviews(rs)
    \/ \E written \in BOOLEAN : SaveOutputs(written)
    \/ Exit

SpecGate == InitGate /\ [][NextGate]_vars

\* ================================================================== claims

GatesOf(revs) == {revs[k].gate : k \in 1..Len(revs)}

VerdictsIn(changes) == {changes[k].verdict : k \in 1..Len(changes)}

\* the most severe of a non-empty set of verdicts, PASS < CONCERN < BLOCK
MaxSeverity(vs) ==
    IF "BLOCK" \in vs THEN "BLOCK"
    ELSE IF "CONCERN" \in vs THEN "CONCERN"
    ELSE "PASS"

\* C1: compute_gate is BLOCK if any review's gate is BLOCK, else CONCERN if
\* any is CONCERN, else PASS for a non-empty list, and CONCERN for the empty
\* list; the value is decided by the set of gate fields alone.
C1_ComputeGate ==
    LET g == compute_gate(reviews)
        gates == GatesOf(reviews)
    IN /\ ("BLOCK" \in gates => g = "BLOCK")
       /\ ("BLOCK" \notin gates /\ "CONCERN" \in gates => g = "CONCERN")
       /\ (gates = {"PASS"} => g = "PASS")
       /\ (reviews = << >> => g = "CONCERN")
       /\ (agg_out # Nothing => agg_out[1].gate = g)

C1_Witness ==
    /\ agg_out # Nothing
    /\ Len(reviews) = 2
    /\ reviews[1].gate = "PASS"
    /\ reviews[2].gate = "CONCERN"
    /\ reviews[2].changes = <<Chg("x", "BLOCK")>>
    /\ agg_out[1].gate = "CONCERN"

\* C2: aggregate_reviews returns the inputs unchanged, the model names
\* parallel to the reviews in input order, the maximum-severity gate (CONCERN
\* for no review) and find_disagreements' list; for ("branch", []) the gate
\* is CONCERN and the disagreements and models are empty.
C2_AggregateReviews ==
    agg_out # Nothing =>
        LET a == agg_out[1] IN
        /\ a.diff_ref = agg_args.diff_ref
        /\ a.spec_file = agg_args.spec_file
        /\ a.reviews = reviews
        /\ Len(a.models) = Len(reviews)
        /\ \A k \in 1..Len(reviews) : a.models[k] = reviews[k].model
        /\ a.gate = IF reviews = << >> THEN "CONCERN" ELSE MaxSeverity(GatesOf(reviews))
        /\ a.disagreements = find_disagreements(reviews)
        /\ (reviews = << >> => a.disagreements = << >> /\ a.models = << >>)

C2_Witness ==
    /\ agg_out # Nothing
    /\ Len(reviews) = 2
    /\ reviews[1].model = "B"
    /\ reviews[2].model = "A"
    /\ agg_out[1].models = <<"B", "A">>
    /\ agg_out[1].gate = "BLOCK"
    /\ agg_out[1].disagreements # << >>

\* C3: the gate of a parsed review is the most severe verdict among its parsed
\* changes, whatever their order, and CONCERN when no change is parsed; empty
\* and unstructured text parse to no change.
C3_ParsedGate ==
    parsed # Nothing =>
        LET r == parsed[1]
            lines == Concat(response)
        IN /\ r.gate = IF r.changes = << >> THEN "CONCERN"
                       ELSE MaxSeverity(VerdictsIn(r.changes))
           /\ ((\A p \in 1..Len(lines) : lines[p].k \in {"T", "B"}) =>
                   r.changes = << >> /\ r.gate = "CONCERN")

C3_Witness ==
    /\ parsed # Nothing
    /\ Len(parsed[1].changes) = 2
    /\ parsed[1].changes[1].verdict = "BLOCK"
    /\ parsed[1].changes[2].verdict = "CONCERN"
    /\ parsed[1].gate = "BLOCK"

\* a change block whose VERDICT text is none of PASS, CONCERN, BLOCK starts
\* on line p
UnknownVerdictBlockAt(lines, p) ==
    /\ p + 2 <= Len(lines)
    /\ lines[p].k = "H"
    /\ lines[p + 1].k = "V"
    /\ StripUpper(lines[p + 1].t) \notin Verdict
    /\ lines[p + 2].k = "R"

\* C4: a change block whose VERDICT text is unrecognized yields a change with
\* verdict CONCERN under that block's heading, so the response does not parse
\* to gate PASS.
C4_UnknownVerdictKept ==
    parsed # Nothing =>
        LET r == parsed[1]
            lines == Concat(response)
        IN \A p \in 1..Len(lines) :
              UnknownVerdictBlockAt(lines, p) =>
                  /\ \E k \in 1..Len(r.changes) :
                        /\ r.changes[k].change_id = <<lines[p]>>
                        /\ r.changes[k].verdict = "CONCERN"
                  /\ r.gate # "PASS"

\* C5: with every review parsed from a response or the ERROR sentinel, the
\* aggregate gate is PASS only when there is a review, every review has a
\* parsed change and every change is PASS; the disagreement list is then empty.
C5_NoSilentPass ==
    (aggregate # Nothing /\ aggregate[1].gate = "PASS") =>
        LET a == aggregate[1] IN
        /\ a.reviews # << >>
        /\ \A k \in 1..Len(a.reviews) :
              /\ a.reviews[k].changes # << >>
              /\ VerdictsIn(a.reviews[k].changes) = {"PASS"}
        /\ a.disagreements = << >>

C5_Witness ==
    /\ aggregate # Nothing
    /\ aggregate[1].gate = "PASS"
    /\ Len(aggregate[1].reviews) = 2
    /\ task[1].model_calls = 2

\* C6: a task whose awaited call raised is done with the sentinel: gate BLOCK,
\* one change "ERROR" with verdict BLOCK whose reasoning holds the error text,
\* raw_response the error text, and nothing of the earlier responses or
\* observations.
C6_ErrorSentinel ==
    \A i \in Tasks :
        LET t == task[i] IN
        /\ t.pc \in {"pending", "awaiting_model", "observing", "done"}
        /\ (t.pc = "done") = (t.review # Nothing)
        /\ t.error # None =>
              /\ t.pc = "done"
              /\ LET r == t.review[1] IN
                 /\ r.model = models[i]
                 /\ r.gate = "BLOCK"
                 /\ Len(r.changes) = 1
                 /\ r.changes[1].change_id = <<Line("H", "ERROR")>>
                 /\ r.changes[1].verdict = "BLOCK"
                 /\ \E k \in 1..Len(r.changes[1].reasoning) :
                       r.changes[1].reasoning[k] = Line("T", t.error)
                 /\ r.raw_response = <<Line("T", t.error)>>
                 /\ r.observations = EmptyMap

C6_Witness ==
    \E i \in Tasks :
        /\ task[i].error = "timed out"
        /\ task[i].iteration = 2
        /\ task[i].accumulated # EmptyMap
        /\ task[i].response # << >>
        /\ task[i].review # Nothing

\* C7: review_with_models returns one review per requested model, in the
\* order of the model list, once every task is done; a model whose call
\* raised is the BLOCK sentinel, and every other model's review is the one
\* parsed from its own last response with its own observations.
C7_GatherAll ==
    results # Nothing =>
        LET rs == results[1] IN
        /\ Len(rs) = Len(models)
        /\ \A i \in Tasks :
              /\ task[i].pc = "done"
              /\ rs[i].model = models[i]
              /\ rs[i] = task[i].review[1]
              /\ task[i].error # None =>
                    /\ rs[i].gate = "BLOCK"
                    /\ rs[i].changes[1].change_id = <<Line("H", "ERROR")>>
              /\ task[i].error = None =>
                    rs[i] = [parse_review_response(models[i], task[i].response)
                                EXCEPT !.observations = task[i].accumulated]

C7_Witness ==
    /\ results # Nothing
    /\ Len(models) = 2
    /\ task[1].error # None
    /\ task[2].error = None
    /\ results[1][1].gate = "BLOCK"
    /\ results[1][2].gate = "PASS"
    /\ results[1][2].observations # EmptyMap

AllDone == \A i \in Tasks : task[i].pc = "done"

\* C8: a review loop calls the model at most max_observations + 1 times and
\* runs at most max_observations observation batches, and when every awaited
\* call returns or raises it ends with a review.
C8_BoundedLoop ==
    /\ [](\A i \in Tasks :
             /\ task[i].model_calls <= max_observations + 1
             /\ task[i].obs_runs <= max_observations
             /\ task[i].iteration <= max_observations)
    /\ <>[](AllDone /\ \A i \in Tasks : task[i].review # Nothing)

C8_Witness ==
    \E i \in Tasks :
        /\ max_observations >= 2
        /\ task[i].pc = "done"
        /\ task[i].error = None
        /\ task[i].model_calls = max_observations + 1
        /\ task[i].obs_runs = max_observations
        /\ parse_observations(task[i].response).value # << >>

\* C9: a response without an observation request, or one received with the
\* budget spent, ends the loop at once: the review is the one parsed from that
\* response with the accumulated observations, no call or observation run is
\* added, and a finished task never changes again.
C9_Finalize ==
    [][\A i \in Tasks :
          /\ \A resp \in LoopResponses :
                (/\ ModelReturns(i, resp)
                 /\ \/ parse_observations(resp) = Returns(<< >>)
                    \/ task[i].iteration >= max_observations)
                => /\ task'[i].pc = "done"
                   /\ task'[i].review =
                         Some([parse_review_response(models[i], resp)
                                  EXCEPT !.observations = task[i].accumulated])
                   /\ task'[i].model_calls = task[i].model_calls
                   /\ task'[i].obs_runs = task[i].obs_runs
                   /\ task'[i].accumulated = task[i].accumulated
          /\ task[i].pc = "done" => task'[i] = task[i]]_vars

\* the task ended because run_model raised
InvocationFailed(t) == t.error \in {"timed out", "failed", "Unknown model"}

\* C10: without a repository path no observation is ever run: the first
\* response ends the loop, the model has been called once, and the review is
\* the one parsed from that response, the request in it discarded.
C10_NoRepoPath ==
    ~Truthy(repo_path) =>
        \A i \in Tasks :
            /\ task[i].obs_runs = 0
            /\ task[i].pc # "observing"
            /\ task[i].model_calls <= 1
            /\ task[i].accumulated = EmptyMap
            /\ (task[i].pc = "done" /\ ~InvocationFailed(task[i])) =>
                  /\ task[i].model_calls = 1
                  /\ task[i].review =
                        Some(parse_review_response(models[i], task[i].response))

\* C11: across the rounds of one review loop the accumulated observations
\* are keyed by request name: a round stores each name it returned with that
\* round's result, keeps every earlier name it did not return with the result
\* it had, nothing else changes the accumulated set, and the review the loop
\* finalizes carries exactly the accumulated set.
C11_AccumulatedObservations ==
    [][\A i \in Tasks :
          LET acc == task[i].accumulated
              acc2 == task'[i].accumulated
              Round(outcomes) == ObservationsReturn(i, outcomes)
              Rounds == [DOMAIN task[i].requested -> ToolOutcomes]
          IN /\ \A outcomes \in Rounds :
                   Round(outcomes) =>
                       LET new == run_observations(task[i].requested,
                                                   outcomes).value
                       IN /\ DOMAIN acc2 = (DOMAIN acc) \cup (DOMAIN new)
                          /\ \A n \in DOMAIN new : acc2[n] = new[n]
                          /\ \A n \in (DOMAIN acc) \ (DOMAIN new) :
                                 acc2[n] = acc[n]
             /\ (\A outcomes \in Rounds : ~Round(outcomes)) => acc2 = acc
             /\ (/\ task[i].pc # "done"
                 /\ task'[i].pc = "done"
                 /\ task'[i].error = None)
                => task'[i].review[1].observations = acc]_vars

\* two rounds have run, the second returned o1 again and not o2, and the
\* finalized review carries both
C11_Witness ==
    \E i \in Tasks :
        /\ task[i].pc = "done"
        /\ task[i].error = None
        /\ task[i].iteration >= 2
        /\ task[i].requested = <<Request("o1", "find_usages", "dict")>>
        /\ DOMAIN task[i].accumulated = {"o1", "o2"}
        /\ task[i].accumulated["o1"] = ToolValue("r2")
        /\ task[i].accumulated["o2"] = ToolValue("r1")
        /\ task[i].review[1].observations = task[i].accumulated

\* the change_ids a review reports
IdsOf(rev) == {rev.changes[c].change_id : c \in 1..Len(rev.changes)}

\* the verdicts the reviews report for a change_id
Reported(revs, id) ==
    UNION { {revs[k].changes[c].verdict :
                c \in {c \in 1..Len(revs[k].changes) :
                          revs[k].changes[c].change_id = id}} :
            k \in 1..Len(revs) }

\* the models whose review reports a change_id
Reporters(revs, id) ==
    {revs[k].model : k \in {k \in 1..Len(revs) : id \in IdsOf(revs[k])}}

\* every model has one review, and no review reports a change_id twice: each
\* model gives each change_id at most one verdict
OneVerdictEach(revs) ==
    /\ \A j, k \in 1..Len(revs) : j # k => revs[j].model # revs[k].model
    /\ \A k \in 1..Len(revs) :
           \A c, d \in 1..Len(revs[k].changes) :
               c # d => revs[k].changes[c].change_id # revs[k].changes[d].change_id

\* the verdicts of a disagreement record
VerdictsOfRecord(d) == {d.verdicts[m] : m \in DOMAIN d.verdicts}

\* C12: every disagreement record is HIGH iff PASS and BLOCK are both among
\* the verdicts reported for its change_id, MEDIUM iff BLOCK is among them
\* without PASS, and LOW otherwise, which is PASS against CONCERN.
C12_Severity ==
    agg_out # Nothing =>
        LET ds == agg_out[1].disagreements IN
        \A p \in 1..Len(ds) :
            LET d == ds[p]
                vs == VerdictsOfRecord(d)
            IN /\ d.severity \in {"HIGH", "MEDIUM", "LOW"}
               /\ d.severity = "HIGH" <=> {"PASS", "BLOCK"} \subseteq vs
               /\ d.severity = "MEDIUM" <=> ("BLOCK" \in vs /\ "PASS" \notin vs)
               /\ d.severity = "LOW" <=> vs = {"PASS", "CONCERN"}
               /\ OneVerdictEach(reviews) =>
                      vs = Reported(reviews, d.change_id)

\* CONCERN against BLOCK has been ranked MEDIUM
C12_Witness ==
    /\ agg_out # Nothing
    /\ Len(reviews) = 2
    /\ reviews[1].model = "A" /\ reviews[1].changes = <<Chg("x", "CONCERN")>>
    /\ reviews[2].model = "B" /\ reviews[2].changes = <<Chg("x", "BLOCK")>>
    /\ Len(agg_out[1].disagreements) = 1
    /\ agg_out[1].disagreements[1].severity = "MEDIUM"

C14_FewerThanTwo ==
    Len(reviews) < 2 =>
        /\ find_disagreements(reviews) = << >>
        /\ agg_out # Nothing => agg_out[1].disagreements = << >>

\* one review that reports x twice, PASS and BLOCK, has been aggregated
C14_Witness ==
    /\ agg_out # Nothing
    /\ Len(reviews) = 1
    /\ reviews[1].changes = <<Chg("x", "PASS"), Chg("x", "BLOCK")>>
    /\ agg_out[1].disagreements = << >>

\* severity a sorts before severity b
SortsBefore(a, b) ==
    <<a, b>> \in {<<"HIGH", "MEDIUM">>, <<"HIGH", "LOW">>, <<"MEDIUM", "LOW">>}

\* where the scan of the reviews, in input order, first meets a change_id:
\* the review and the position in its changes
FirstSeen(revs, id) ==
    LET k == CHOOSE j \in 1..Len(revs) :
                 /\ id \in IdsOf(revs[j])
                 /\ \A h \in 1..(j - 1) : id \notin IdsOf(revs[h])
        c == CHOOSE e \in 1..Len(revs[k].changes) :
                 /\ revs[k].changes[e].change_id = id
                 /\ \A h \in 1..(e - 1) : revs[k].changes[h].change_id # id
    IN <<k, c>>

SeenBefore(revs, a, b) ==
    LET fa == FirstSeen(revs, a)
        fb == FirstSeen(revs, b)
    IN fa[1] < fb[1] \/ (fa[1] = fb[1] /\ fa[2] < fb[2])

\* C15: find_disagreements' list is ordered by severity, every HIGH record
\* before every MEDIUM one and every MEDIUM before every LOW one, and records
\* of equal severity are in the order in which the scan of the reviews, in
\* input order, first met their change_ids.
C15_SortedBySeverity ==
    agg_out # Nothing =>
        LET ds == agg_out[1].disagreements IN
        \A p, q \in 1..Len(ds) :
            p < q =>
                /\ ~SortsBefore(ds[q].severity, ds[p].severity)
                /\ ds[p].severity = ds[q].severity =>
                       SeenBefore(reviews, ds[p].change_id, ds[q].change_id)

\* x, LOW, is met before y, HIGH, and is listed after it
C15_Witness ==
    /\ agg_out # Nothing
    /\ Len(reviews) = 2
    /\ reviews[1].model = "A"
    /\ reviews[1].changes = <<Chg("x", "PASS"), Chg("y", "PASS")>>
    /\ reviews[2].model = "B"
    /\ reviews[2].changes = <<Chg("x", "CONCERN"), Chg("y", "BLOCK")>>
    /\ Len(agg_out[1].disagreements) = 2
    /\ agg_out[1].disagreements[1].change_id = <<Line("H", "y")>>
    /\ agg_out[1].disagreements[1].severity = "HIGH"
    /\ agg_out[1].disagreements[2].change_id = <<Line("H", "x")>>
    /\ agg_out[1].disagreements[2].severity = "LOW"

\* C16: the verdicts mapping of a disagreement record holds exactly the
\* models that reported its change_id, a model that did not report it being
\* absent, each with the label of the verdict it gave; for A reporting x
\* PASS and B reporting x BLOCK the output is the one record
\* {A: PASS, B: BLOCK} of severity HIGH.
C16_VerdictsMapping ==
    agg_out # Nothing =>
        LET ds == agg_out[1].disagreements IN
        /\ \A p \in 1..Len(ds) :
               LET d == ds[p] IN
               /\ DOMAIN d.verdicts = Reporters(reviews, d.change_id)
               /\ \A m \in DOMAIN d.verdicts : d.verdicts[m] \in Verdict
               /\ OneVerdictEach(reviews) =>
                      \A k \in 1..Len(reviews) :
                          \A c \in 1..Len(reviews[k].changes) :
                              reviews[k].changes[c].change_id = d.change_id =>
                                  d.verdicts[reviews[k].model] =
                                      reviews[k].changes[c].verdict
        /\ (/\ Len(reviews) = 2
            /\ reviews[1].model = "A"
            /\ reviews[1].changes = <<Chg("x", "PASS")>>
            /\ reviews[2].model = "B"
            /\ reviews[2].changes = <<Chg("x", "BLOCK")>>)
           => ds = <<[change_id |-> <<Line("H", "x")>>,
                      verdicts |-> [m \in {"A", "B"} |->
                                       IF m = "A" THEN "PASS" ELSE "BLOCK"],
                      severity |-> "HIGH"]>>

\* A and B disagree on x, and C, which reports y alone, is not in the record
C16_Witness ==
    /\ agg_out # Nothing
    /\ Len(reviews) = 3
    /\ reviews[1].model = "A" /\ reviews[1].changes = <<Chg("x", "PASS")>>
    /\ reviews[2].model = "B" /\ reviews[2].changes = <<Chg("x", "BLOCK")>>
    /\ reviews[3].model = "C" /\ reviews[3].changes = <<Chg("y", "CONCERN")>>
    /\ Len(agg_out[1].disagreements) = 1
    /\ DOMAIN agg_out[1].disagreements[1].verdicts = {"A", "B"}

\* a sequence without its k-th element
Remove(seq, k) == SubSeq(seq, 1, k - 1) \o SubSeq(seq, k + 1, Len(seq))

\* the request is an object with a name that can be a key, or with none
WellNamed(obs) == obs.dict /\ obs.name # Unhashable

\* the three requests C17 is about
UnknownTool(obs) ==
    WellNamed(obs) /\ Truthy(obs.tool) /\ obs.tool # Unhashable
                   /\ obs.tool \notin OBSERVATION_TOOLS

OmitsTool(obs) == WellNamed(obs) /\ obs.tool = None

ToolThrows(obs, outcome) ==
    WellNamed(obs) /\ obs.tool \in OBSERVATION_TOOLS /\ obs.params # "list"
                   /\ outcome \in ToolErrors

\* C17: a request of run_observations that names an unknown tool, omits the
\* tool, or whose tool throws does not make the batch fail: the batch returns
\* whenever it returns without that request, the request adds its own name
\* to the results and nothing else, under its name (when no other request
\* uses it) is a result with an "error" key, "Unknown tool: <tool>" for an
\* unknown tool, and every other name has the result it has without the
\* request.
C17_FailingRequest ==
    obs_results # Nothing =>
        \A k \in 1..Len(obs_requests) :
            LET obs == obs_requests[k]
                key == Get(obs.name, "unnamed")
                run == obs_results[1]
                rest == run_observations(Remove(obs_requests, k),
                                         Remove(tool_outcomes, k))
                alone == \A j \in 1..Len(obs_requests) :
                             j # k => Get(obs_requests[j].name, "unnamed") # key
            IN (UnknownTool(obs) \/ OmitsTool(obs)
                                 \/ ToolThrows(obs, tool_outcomes[k])) =>
                   /\ run.raises = rest.raises
                   /\ ~run.raises =>
                          /\ DOMAIN run.value = (DOMAIN rest.value) \cup {key}
                          /\ \A n \in (DOMAIN rest.value) \ {key} :
                                 run.value[n] = rest.value[n]
                          /\ alone => run.value[key].error # << >>
                          /\ (alone /\ UnknownTool(obs)) =>
                                 run.value[key] =
                                     ErrorResult(<<"Unknown tool: ", obs.tool>>)

\* a request for an unknown tool and one whose tool throws, next to each
\* other: each has its error under its own name
C17_Witness ==
    /\ obs_results # Nothing
    /\ obs_requests = <<Request("o3", "nope", "dict"),
                        Request("o1", "find_usages", "dict")>>
    /\ tool_outcomes = <<"r1", "OSError">>
    /\ obs_results[1] =
           Returns([n \in {"o1", "o3"} |->
                       IF n = "o3" THEN ErrorResult(<<"Unknown tool: ", "nope">>)
                       ELSE ErrorResult(<<"OSError">>)])

\* C18: run_observations never raises: for every list that parse_observations
\* can hand it, elements that are not objects and requests without name, tool
\* or params or with params that is not an object included, it returns a
\* mapping with an entry for each request that has a name.
C18_RunnerNeverRaises ==
    obs_results # Nothing =>
        /\ ~obs_results[1].raises
        /\ \A k \in 1..Len(obs_requests) :
               (obs_requests[k].dict /\ obs_requests[k].name # None) =>
                   obs_requests[k].name \in DOMAIN obs_results[1].value

\* C19: parse_observations never raises: it returns the parsed list when the
\* first OBSERVATIONS block of the response holds fenced JSON that parses to
\* an array, and the empty list in every other case.
C19_ParseObservations ==
    parsed_obs # Nothing =>
        LET resp == Concat(response)
            blocks == {p \in 1..Len(resp) : resp[p].k = "OBS"}
            call == parsed_obs[1]
        IN /\ ~call.raises
           /\ blocks = {} => call.value = << >>
           /\ blocks # {} =>
                  LET p == CHOOSE q \in blocks : \A r \in blocks : q <= r
                      js == JsonLoads(resp[p].t)
                  IN call.value = IF js.kind = "list" THEN js.items ELSE << >>

\* the texts that are PASS, CONCERN and BLOCK once case and surrounding
\* whitespace are ignored (the long s is a lower-case s)
VerdictSpellings ==
    [PASS |-> {"PASS", "pass", LongS},
     CONCERN |-> {"CONCERN", "Concern"},
     BLOCK |-> {"BLOCK", " Block "}]

\* C20: parse_verdict maps PASS, CONCERN and BLOCK, in any case and with
\* surrounding whitespace, to their variants and every other text, the empty
\* one included, to CONCERN; PASS is returned for the text PASS only.
C20_ParseVerdict ==
    verdict_out # Nothing =>
        LET v == verdict_out[1] IN
        /\ v \in Verdict
        /\ \A w \in Verdict : verdict_text \in VerdictSpellings[w] => v = w
        /\ (\A w \in Verdict : verdict_text \notin VerdictSpellings[w])
               => v = "CONCERN"
        /\ v = "PASS" => verdict_text \in VerdictSpellings["PASS"]

\* a text that is no verdict has been parsed
C20_Witness ==
    /\ verdict_out = Some("CONCERN")
    /\ verdict_text = "MAYBE"

\* the labels of the secondary axes
AxisLabels ==
    [C |-> {"VALID", "QUESTIONABLE", "BROKEN"},
     S |-> {"MEETS", "PARTIAL", "VIOLATES", "N/A"},
     TC |-> {"COVERED", "PARTIAL", "UNTESTED"},
     I |-> {"WIRED", "PARTIAL", "MISSING"}]

\* the variant a field text names, case and surrounding blanks aside; None
\* when it names none
Variant(kind, text) ==
    LET u == StripUpper(text) IN
    IF kind = "S" /\ u \in {"N/A", "NA"} THEN "N/A"
    ELSE IF u \in AxisLabels[kind] THEN u
    ELSE None

\* the position a field kind has in the fixed order of the fields
FieldOrder(kind) ==
    CASE kind = "C" -> 1 [] kind = "S" -> 2 [] kind = "TC" -> 3
      [] kind = "I" -> 4 [] OTHER -> 0

\* a heading, a VERDICT line with one of the three labels, secondary-axis
\* fields in their order, each with some text, and a REASONING line
IsChangeBlock(b) ==
    /\ Len(b) >= 3
    /\ b[1].k = "H"
    /\ b[2].k = "V" /\ StripUpper(b[2].t) \in Verdict
    /\ b[Len(b)].k = "R"
    /\ \A p \in 3..(Len(b) - 1) : FieldOrder(b[p].k) > 0 /\ b[p].t # ""
    /\ \A p, q \in 3..(Len(b) - 1) :
           p < q => FieldOrder(b[p].k) < FieldOrder(b[q].k)

\* the axis of a change block: the variant its field names, None without
\* the field
AxisOf(b, kind) ==
    IF \E p \in 1..Len(b) : b[p].k = kind
    THEN Variant(kind, b[CHOOSE p \in 1..Len(b) : b[p].k = kind].t)
    ELSE None

\* C21: a response of change blocks parses to one change per block, in
\* order, with the block's heading, verdict and reasoning, and each
\* secondary axis the variant its field text names ("N/A" and "NA" both
\* NOT_APPLICABLE for SPEC_COMPLIANCE) and None when the field is missing or
\* its text names no variant: such a text changes neither the verdict nor
\* the other axes and does not drop the change.
C21_SecondaryAxes ==
    (parsed # Nothing /\ \A k \in 1..Len(response) : IsChangeBlock(response[k])) =>
        parsed[1].changes =
            [k \in 1..Len(response) |->
                LET b == response[k] IN
                ChangeVerdict(<<b[1]>>, StripUpper(b[2].t),
                              AxisOf(b, "C"), AxisOf(b, "S"),
                              AxisOf(b, "TC"), AxisOf(b, "I"),
                              <<b[Len(b)]>>)]

\* a SELF_REVIEW block with its CONFIDENCE and LIMITATIONS fields starts on
\* line p
SelfReviewBlockAt(lines, p) ==
    /\ p + 2 <= Len(lines)
    /\ lines[p] = Line("H", "SELF_REVIEW")
    /\ lines[p + 1].k = "CF"
    /\ lines[p + 2].k = "L"

\* C22: a response that holds a SELF_REVIEW block with CONFIDENCE and
\* LIMITATIONS fields parses to a SelfReview, with the confidence HIGH, MEDIUM
\* or LOW as the first block writes it and MEDIUM when its text is none of
\* them; the self-review is absent only when the response holds no such
\* block.
C22_SelfReview ==
    parsed # Nothing =>
        LET lines == Concat(response)
            at == {p \in 1..Len(lines) : SelfReviewBlockAt(lines, p)}
            sr == parsed[1].self_review
        IN /\ at = {} => sr = Nothing
           /\ at # {} =>
                  LET p == CHOOSE q \in at : \A r \in at : q <= r
                      u == StripUpper(lines[p + 1].t)
                  IN /\ sr # Nothing
                     /\ sr[1].confidence =
                            IF u \in {"HIGH", "MEDIUM", "LOW"} THEN u ELSE "MEDIUM"

\* the names under which run_observations stores the results of a list of
\* requests
NamesOf(requested) ==
    {Get(requested[k].name, "unnamed") : k \in 1..Len(requested)}

\* C23: with several models reviewed concurrently, under every interleaving,
\* a task's accumulated observations are changed by its own observation
\* round alone, which adds only results of the requests this task made; the
\* observations in its re-prompt and those attached to its final review are
\* its own accumulated set, never another task's.
C23_PrivateObservations ==
    [][\A i \in Tasks :
          LET t == task[i]
              t2 == task'[i]
              own == {o \in [DOMAIN t.requested -> ToolOutcomes] :
                         ObservationsReturn(i, o)}
          IN /\ own = {} =>
                    /\ t2.accumulated = t.accumulated
                    /\ t2.current_prompt = t.current_prompt
             /\ \A o \in own :
                    LET new == run_observations(t.requested, o).value IN
                    /\ DOMAIN new \subseteq NamesOf(t.requested)
                    /\ \A n \in DOMAIN t2.accumulated :
                           IF n \in DOMAIN new
                           THEN t2.accumulated[n] = new[n]
                           ELSE n \in DOMAIN t.accumulated
                                /\ t2.accumulated[n] = t.accumulated[n]
                    /\ t2.current_prompt.observations = t2.accumulated
             /\ (t.pc # "done" /\ t2.pc = "done") =>
                    t2.review[1].observations \in {EmptyMap, t.accumulated}]_vars

\* two models have been reviewed, each after an observation round of its
\* own, and their reviews carry different observations
C23_Witness ==
    /\ Len(models) = 2
    /\ \A i \in Tasks : task[i].pc = "done" /\ task[i].error = None
    /\ DOMAIN task[1].accumulated = {"o1"}
    /\ DOMAIN task[2].accumulated = {"o1", "o2"}
    /\ task[1].accumulated["o1"] # task[2].accumulated["o1"]
    /\ \A i \in Tasks : task[i].review[1].observations = task[i].accumulated

\* C24: within one review loop a model invocation starts only when none is
\* in flight and, after the first, only once every observation task of the
\* previous iteration has completed and its result is merged into the
\* accumulated set; no observation task runs while the model is invoked; the
\* tasks of one iteration run concurrently, completing in any order.
C24_SequentialIterations ==
    /\ [](\A i \in Tasks :
             task[i].pc = "awaiting_model" =>
                 /\ AllComplete(task[i])
                 /\ task[i].iteration = task[i].model_calls - 1
                 /\ task[i].iteration = task[i].obs_runs)
    /\ [][\A i \in Tasks :
             task'[i].model_calls # task[i].model_calls =>
                 /\ task'[i].model_calls = task[i].model_calls + 1
                 /\ task[i].pc \in {"pending", "observing"}
                 /\ task'[i].pc = "awaiting_model"
                 /\ task[i].pc = "observing" =>
                        LET call == run_observations(task[i].requested,
                                                     task[i].outcomes)
                        IN /\ AllComplete(task[i])
                           /\ ~call.raises
                           /\ task'[i].iteration = task[i].iteration + 1
                           /\ \A n \in DOMAIN call.value :
                                  /\ n \in DOMAIN task'[i].accumulated
                                  /\ task'[i].accumulated[n] = call.value[n]
                           /\ task'[i].current_prompt.observations =
                                  task'[i].accumulated]_vars

\* in the second iteration the second of two requests has completed and the
\* first is still running
C24_Witness ==
    \E i \in Tasks :
        /\ task[i].pc = "observing"
        /\ task[i].iteration = 1
        /\ Len(task[i].requested) = 2
        /\ task[i].outcomes[1] = Running
        /\ task[i].outcomes[2] \in ToolResults
        /\ task[i].accumulated # EmptyMap

\* C25: once the reviews have run, the exit code of the gate command is 0
\* iff the aggregate gate is PASS, 1 iff it is CONCERN and 2 iff it is BLOCK.
C25_GateExitCode ==
    (cli.pc = "exited" /\ agg_out # Nothing) =>
        LET g == agg_out[1].gate
            code == cli.exit_code[1]
        IN /\ code = 0 <=> g = "PASS"
           /\ code = 1 <=> g = "CONCERN"
           /\ code = 2 <=> g = "BLOCK"

\* the gate parse_review_response derives from a review's changes, which is
\* also the gate of the ERROR sentinel
DerivedGate(r) ==
    IF r.changes = << >> THEN "CONCERN" ELSE MaxSeverity(VerdictsIn(r.changes))

\* C26: when the gate of every review is the one derived from its own
\* changes, an aggregate that lists a disagreement of severity HIGH or MEDIUM
\* has gate BLOCK.
C26_SevereDisagreementBlocks ==
    (/\ agg_out # Nothing
     /\ \A k \in 1..Len(reviews) : reviews[k].gate = DerivedGate(reviews[k]))
    => \A p \in 1..Len(agg_out[1].disagreements) :
           agg_out[1].disagreements[p].severity \in {"HIGH", "MEDIUM"}
               => agg_out[1].gate = "BLOCK"

\* A finds x a CONCERN and B blocks it: a MEDIUM disagreement, gate BLOCK
C26_Witness ==
    /\ agg_out # Nothing
    /\ Len(reviews) = 2
    /\ reviews[1] = ModelReview("A", "CONCERN", <<Chg("x", "CONCERN")>>, << >>)
    /\ reviews[2] = ModelReview("B", "BLOCK", <<Chg("x", "BLOCK")>>, << >>)
    /\ \E p \in 1..Len(agg_out[1].disagreements) :
           agg_out[1].disagreements[p].severity = "MEDIUM"
    /\ agg_out[1].gate = "BLOCK"

\* PASS < CONCERN < BLOCK
Rank(v) == CASE v = "PASS" -> 0 [] v = "CONCERN" -> 1 [] v = "BLOCK" -> 2

\* C27: a review added to a non-empty list never lowers the gate:
\* compute_gate(reviews + [r]) is at least compute_gate(reviews).
C27_GateMonotone ==
    reviews # << >> =>
        \A r \in ReviewSet \cup ThirdReviews :
            Rank(compute_gate(Append(reviews, r))) >= Rank(compute_gate(reviews))

\* a PASS review has been added to a BLOCK one and to a CONCERN one, and the
\* gate has stayed
C27_Witness ==
    /\ Len(reviews) = 3
    /\ reviews[1].gate = "CONCERN"
    /\ reviews[2].gate = "BLOCK"
    /\ reviews[3].gate = "PASS"
    /\ compute_gate(SubSeq(reviews, 1, 1)) = "CONCERN"
    /\ compute_gate(SubSeq(reviews, 1, 2)) = "BLOCK"
    /\ compute_gate(reviews) = "BLOCK"

\* C28: every prompt of the loop shows the diff content of the original
\* prompt, the re-prompts after an observation round included, and carries
\* the whole accumulated observation set.
C28_RePrompt ==
    \A i \in Tasks :
        /\ task[i].current_prompt.diff = prompt.diff
        /\ task[i].current_prompt.observations = task[i].accumulated

\* C29: run_observation calls the tool with exactly the request's params that
\* the tool's signature accepts, plus the repository root as repo_path iff
\* the tool accepts repo_path and the request has none; a repo_path of the
\* request is passed as it is, and no parameter outside the signature is
\* passed
C29_FilteredParams ==
    \A c \in {tool_call[j] : j \in DOMAIN tool_call} :
        c.received # Nothing =>
            LET got == c.received[1]
                accepted == Signature(c.tool)
                inject == "repo_path" \in accepted /\ "repo_path" \notin DOMAIN c.params
            IN  /\ DOMAIN got \subseteq accepted
                /\ DOMAIN got \ {"repo_path"} = (DOMAIN c.params \cap accepted) \ {"repo_path"}
                /\ \A k \in DOMAIN c.params \cap accepted : got[k] = c.params[k]
                /\ inject => "repo_path" \in DOMAIN got /\ got["repo_path"] = c.root
                /\ ~inject => ("repo_path" \in DOMAIN got <=> "repo_path" \in DOMAIN c.params \cap accepted)

\* a tool was called for a request with its own repo_path and a parameter the
\* tool does not take
C29_Witness ==
    /\ tool_call # Nothing
    /\ tool_call[1].received # Nothing
    /\ {"repo_path", "bogus"} \subseteq DOMAIN tool_call[1].params
    /\ tool_call[1].params["repo_path"] = "/other"
    /\ tool_call[1].received[1]["repo_path"] = "/other"

\* the classes a class inherits from, as exception_hierarchy lists them
Supertypes(exc_name) ==
    IF exc_name = "KeyError" THEN {"LookupError", "Exception", "BaseException"}
    ELSE IF exc_name = "KeyboardInterrupt" THEN {"BaseException"}
    ELSE IF exc_name = "BaseException" THEN {}
    ELSE IF exc_name = "Exception" THEN {"BaseException"}
    ELSE {"Exception", "BaseException"}

\* the raise statements of a list of statements, each with the handler lists
\* of the try statements whose body encloses it
RECURSIVE RaiseStatements(_, _)
RECURSIVE HandlerRaises(_, _)
RaiseStatements(nodes, enclosing) ==
    IF nodes = << >> THEN {}
    ELSE LET node == Head(nodes)
             here ==
                 IF node.kind = "raise"
                 THEN IF node.exc = None THEN {}
                      ELSE {[exc |-> node.exc, enclosing |-> enclosing]}
                 ELSE IF node.kind = "try"
                 THEN RaiseStatements(node.body, Append(enclosing, node.handlers))
                        \cup RaiseStatements(node.orelse, enclosing)
                        \cup RaiseStatements(node.finalbody, enclosing)
                        \cup HandlerRaises(node.handlers, enclosing)
                 ELSE RaiseStatements(node.body, enclosing)
         IN  here \cup RaiseStatements(Tail(nodes), enclosing)

HandlerRaises(handlers, enclosing) ==
    IF handlers = << >> THEN {}
    ELSE RaiseStatements(Head(handlers).body, enclosing)
            \cup HandlerRaises(Tail(handlers), enclosing)

\* no try statement whose body encloses the raise has a handler that is
\* bare, names the raised type or names a supertype of it
Escapes(stmt) ==
    \A j \in DOMAIN stmt.enclosing :
        \A k \in DOMAIN stmt.enclosing[j] :
            LET handler == stmt.enclosing[j][k]
            IN  ~ \/ handler.bare
                  \/ stmt.exc \in handler.names
                  \/ handler.names \cap Supertypes(stmt.exc) # {}

\* C30: explicit_raises holds the name of a raise statement of the function
\* iff no try statement whose body encloses the raise has a handler that is
\* bare, names the raised type or names a supertype of it; a raise in a
\* handler, else or finally clause is not caught by that same try statement
C30_ExplicitRaises ==
    \A a \in {analysis[j] : j \in DOMAIN analysis} :
        \A stmt \in RaiseStatements(a.body, << >>) :
            (\E other \in RaiseStatements(a.body, << >>) :
                other.exc = stmt.exc /\ Escapes(other))
                <=> stmt.exc \in a.explicit_raises

====
